---------------------------- MODULE Spec2Model ----------------------------
(***************************************************************************)
(* A model of the GitHub dashboard's core: the pagination-following API    *)
(* client (services/github-pull-request-service.js and                     *)
(* services/github-organization-service.js), the PullRequestList,          *)
(* OrganizationRepoList and OrganizationList components that call it, and  *)
(* the aggregations of PullRequestList (grouping, closed counts, weekly    *)
(* series, contributors, file-type stats).                                 *)
(*                                                                         *)
(* Twelve specifications share the module:                                 *)
(*   SpecWeekly  getPRsByUserPerWeek run on bounded PR lists               *)
(*   SpecGroup   getGroupedPRs run on bounded PR lists                     *)
(*   SpecFetch   one call of a service function against a paging server    *)
(*   SpecLoad    PullRequestList: property changes and concurrent loads    *)
(*   SpecRepos   OrganizationRepoList: property changes and loads          *)
(*   SpecAgg     the five aggregations called on loaded PR lists           *)
(*   SpecStats   the per-PR file-type stats on bounded file lists          *)
(*   SpecISO     getISOWeek on the days of consecutive weeks               *)
(*   SpecClosed  getClosedPRCountsByUser with digit-only author names      *)
(*   SpecSelect  PullRequestList with its contributor select               *)
(*   SpecOrgs    OrganizationList: token changes and loads                 *)
(*   SpecComponents  any one of the three list components                  *)
(***************************************************************************)
EXTENDS Integers, Sequences, FiniteSets, TLC

VARIABLES
    pullRequests,   \* PullRequestList.pullRequests
    wk,             \* getPRsByUserPerWeek: its locals and its position
    grouped,        \* the value returned by the last getGroupedPRs call
    srvTotal,       \* SpecFetch: the number of items the server holds
    call,           \* SpecFetch: the service call under way
    thisOrg,        \* this.org, the component's org property
    thisRepo,       \* this.repo of PullRequestList
    githubToken,    \* the component's githubToken property
    error,          \* the component's error field
    repositories,   \* OrganizationRepoList.repositories
    loads,          \* the load calls under way, oldest first
    started,        \* the number of load calls started so far
    shown,          \* the load call that last assigned the list and error
    agg,            \* render(): its position and the aggregations it got
    isoCalls,       \* the getISOWeek calls made on the days of one week
    ft,             \* two file lists and the file-type stats got from them
    organizations,  \* OrganizationList.organizations
    selectedContributor,  \* PullRequestList.selectedContributor
    component       \* SpecComponents: the component the behaviour is of

pureVars == <<agg, isoCalls, ft>>

aggVars == <<wk, grouped, pureVars>>

fetchVars == <<srvTotal, call>>

viewVars == <<organizations, selectedContributor, component>>

compVars == <<thisOrg, thisRepo, githubToken, error, repositories, loads,
              started, shown, viewVars>>

vars == <<pullRequests, wk, grouped, srvTotal, call, thisOrg, thisRepo,
          githubToken, error, repositories, loads, started, shown, agg,
          isoCalls, ft, organizations, selectedContributor, component>>

----------------------------------------------------------------------------
(* Bounds of the model *)

\* PR lists of at most this many PRs are given to getPRsByUserPerWeek.
MaxWeeklyPRs == 2

\* created_at ranges over this many consecutive days, starting at WindowStart.
NumDays == 9

\* The week enumeration is followed for at most this many iterations.
MaxWeeks == 5

\* PR lists of at most this many PRs are given to getGroupedPRs.
MaxPRs == 3

\* SpecFetch: the server holds at most this many full pages, plus a rest.
MaxFullPages == 2

\* The page size of the server for a request that names no per_page.
SrvDefaultPerPage == 30

MaxLoads == 2              \* load calls started in one behaviour

LoadSrvMax == 1            \* items per page of the server of a load

MaxAggPRs == 3             \* pull requests of the aggregations

MaxFiles == 2              \* files of one file list

NumISOWeeks == 420         \* weeks from 2018-12-31 on

----------------------------------------------------------------------------
(* JavaScript Date, in UTC.  A timestamp is a number of ticks since        *)
(* 1970-01-01T00:00:00Z; a day has DayTicks ticks (86400000 in the code,   *)
(* where a tick is a millisecond).                                         *)

DayTicks == 2

\* Date.UTC(y, m, d): the timestamp of midnight of a civil date (m is 1..12).
DaysFromCivil(y, m, d) ==
    LET yy  == IF m <= 2 THEN y - 1 ELSE y
        era == yy \div 400
        yoe == yy - era * 400
        mp  == IF m > 2 THEN m - 3 ELSE m + 9
        doy == (153 * mp + 2) \div 5 + d - 1
        doe == yoe * 365 + yoe \div 4 - yoe \div 100 + doy
    IN  era * 146097 + doe - 719468

\* The civil date [y, m, d] of a day number (days since 1970-01-01).
CivilFromDays(days) ==
    LET z   == days + 719468
        era == z \div 146097
        doe == z - era * 146097
        yoe == (doe - doe \div 1460 + doe \div 36524 - doe \div 146096) \div 365
        doy == doe - (365 * yoe + yoe \div 4 - yoe \div 100)
        mp  == (5 * doy + 2) \div 153
        dd  == doy - (153 * mp + 2) \div 5 + 1
        mm  == IF mp < 10 THEN mp + 3 ELSE mp - 9
    IN  [y |-> yoe + era * 400 + (IF mm <= 2 THEN 1 ELSE 0), m |-> mm, d |-> dd]

DayOf(ts) == ts \div DayTicks

\* new Date(Date.UTC(getUTCFullYear(), getUTCMonth(), getUTCDate())): midnight.
UTCMidnight(ts) ==
    LET c == CivilFromDays(DayOf(ts))
    IN  DaysFromCivil(c.y, c.m, c.d) * DayTicks

GetUTCFullYear(ts) == CivilFromDays(DayOf(ts)).y

\* getUTCDay(): 0 = Sunday .. 6 = Saturday; 1970-01-01 was a Thursday.
GetUTCDay(ts) == (DayOf(ts) + 4) % 7

\* d.setUTCDate(d.getUTCDate() + n): n days later (or earlier), same time.
AddDays(ts, n) == ts + n * DayTicks

\* new Date(pr.created_at): created_at is an ISO-8601 UTC timestamp, held
\* as its fields [y, m, d, t] (t = the time of day in ticks).
ParseDate(iso) == DaysFromCivil(iso.y, iso.m, iso.d) * DayTicks + iso.t

\* obj[key] || default, for a key that may be absent
Lookup(f, k, default) == IF k \in DOMAIN f THEN f[k] ELSE default

\* Math.ceil(a / b) for a >= 0, b > 0.
Ceil(a, b) == (a + b - 1) \div b

GetISOWeekSundayFirst(date) ==
    LET tmp0      == UTCMidnight(date)
        tmp       == AddDays(tmp0, 4 - GetUTCDay(tmp0))
        yearStart == DaysFromCivil(GetUTCFullYear(tmp), 1, 1) * DayTicks
    IN  Ceil((tmp - yearStart) \div DayTicks + 1, 7)

\* PullRequestList.getISOWeek(date)
GetISOWeek(date) ==
    LET tmp0      == UTCMidnight(date)
        dayNum    == IF GetUTCDay(tmp0) = 0 THEN 7 ELSE GetUTCDay(tmp0)
        tmp       == AddDays(tmp0, 4 - dayNum)
        yearStart == DaysFromCivil(GetUTCFullYear(tmp), 1, 1) * DayTicks
    IN  Ceil((tmp - yearStart) \div DayTicks + 1, 7)

\* String.prototype.padStart(n, c) for a one-character c.
RECURSIVE PadStart(_, _, _)
PadStart(s, n, c) == IF Len(s) < n THEN PadStart(c \o s, n, c) ELSE s

\* `${year}-W${week.toString().padStart(2, '0')}` of a date
WeekKey(date) ==
    ToString(GetUTCFullYear(date)) \o "-W"
        \o PadStart(ToString(GetISOWeek(date)), 2, "0")

----------------------------------------------------------------------------
(* Pull requests *)

NullUser == "null"          \* user: null

Logins == {"alice", "bob"}

UserOfNoDefault(pr) == pr.user

\* pr.user?.login || 'unknown'
UserOf(pr) == IF pr.user = NullUser \/ pr.user = "" THEN "unknown" ELSE pr.user

\* The created_at values of the model: every tick of NumDays days from
\* 2020-12-27, a window holding the week 2020-W53 (2020-12-28 .. 2021-01-03).
WindowStart == DaysFromCivil(2020, 12, 27)

CreatedAts ==
    { [y |-> CivilFromDays(dy).y, m |-> CivilFromDays(dy).m,
       d |-> CivilFromDays(dy).d, t |-> t] :
         dy \in WindowStart .. (WindowStart + NumDays - 1),
         t \in {0, DayTicks - 1} }

PR(number, state, user, created_at) ==
    [number |-> number, state |-> state, user |-> user,
     created_at |-> created_at]

\* prs is a list of at most n PRs with states in S, users in U, dates in D,
\* numbered by their position.
IsPRList(prs, n, S, U, D) ==
    \E k \in 0..n : \E f \in [1..k -> S \X U \X D] :
        prs = [i \in 1..k |-> PR(i, f[i][1], f[i][2], f[i][3])]

----------------------------------------------------------------------------
(* HTTP: requests, the paging server, responses *)

NoParam == 0                \* a query parameter the URL does not carry

\* per_page=100 (the pull-request and the organization service)
PerPage == 100

Min(a, b) == IF a <= b THEN a ELSE b

\* https://api.github.com/<endpoint of org, repo>?<params>
Url(endpoint, org, repo, params) ==
    [endpoint |-> endpoint, org |-> org, repo |-> repo,
     per_page |-> Lookup(params, "per_page", NoParam),
     page |-> Lookup(params, "page", NoParam),
     state |-> Lookup(params, "state", "")]

\* fetch(url, {headers: {Authorization: `token ${token}`, Accept: ...}})
Request(url, token) == [url |-> url, token |-> token]

\* The page a URL asks for, of a server that serves at most srvMax items
\* per page: its number, its size, and the positions of its items.
PageNo(url) == IF url.page = NoParam THEN 1 ELSE url.page

PageSize(url, srvMax) ==
    Min(IF url.per_page = NoParam THEN SrvDefaultPerPage ELSE url.per_page,
        srvMax)

SrvPage(items, url, srvMax) ==
    LET size  == PageSize(url, srvMax)
        first == (PageNo(url) - 1) * size + 1
        last  == Min(PageNo(url) * size, Len(items))
    IN  IF first > last THEN <<>> ELSE SubSeq(items, first, last)

\* The Link header of a page: prev, next, last, first, as far as they exist;
\* no header at all for a single page.
SrvLink(items, url, srvMax) ==
    LET size  == PageSize(url, srvMax)
        pages == IF Len(items) = 0 THEN 1 ELSE Ceil(Len(items), size)
        to(n, rel) == <<[url |-> [url EXCEPT !.page = n], rel |-> rel]>>
    IN  (IF PageNo(url) > 1 THEN to(PageNo(url) - 1, "prev") ELSE <<>>)
        \o (IF PageNo(url) < pages
            THEN to(PageNo(url) + 1, "next") \o to(pages, "last") ELSE <<>>)
        \o (IF PageNo(url) > 1 THEN to(1, "first") ELSE <<>>)

OkResponse(items, url, srvMax) ==
    [ok |-> TRUE, status |-> 200, statusText |-> "OK",
     body |-> SrvPage(items, url, srvMax),
     link |-> SrvLink(items, url, srvMax)]

ErrorStatuses == {403, 404, 500}

StatusText(status) ==
    CASE status = 403 -> "Forbidden"
      [] status = 404 -> "Not Found"
      [] status = 500 -> "Internal Server Error"

ErrorResponse(status) ==
    [ok |-> FALSE, status |-> status, statusText |-> StatusText(status),
     body |-> <<>>, link |-> <<>>]

NoResponse == [ok |-> FALSE, status |-> 0, statusText |-> "", body |-> <<>>,
               link |-> <<>>]

NoUrl == Url("", "", "", <<>>)      \* url = null

----------------------------------------------------------------------------
(* The service functions.  A call is a record: fn, its position pc         *)
(* ("idle", "await" = a request is outstanding, "returned", "rejected"),   *)
(* its locals, the requests it has issued, the number of responses it has  *)
(* received and the last of them, and its outcome (result or error).       *)

NoCall ==
    [fn |-> "", pc |-> "idle", org |-> "", repo |-> "", token |-> "",
     url |-> NoUrl, page |-> 0, hasMore |-> FALSE, acc |-> <<>>,
     requests |-> <<>>, received |-> 0, response |-> NoResponse,
     result |-> <<>>, error |-> ""]

\* `GitHub API error: ${response.status} ${response.statusText}`
ApiErrorMessage(response) ==
    "GitHub API error: " \o ToString(response.status) \o " "
        \o response.statusText

AccessDeniedMessage ==
    "Access denied. You do not have permission to view repositories for this organization."

FirstLinkAny(link) == IF link = <<>> THEN NoUrl ELSE link[1].url

\* linkHeader.match(/<([^>]+)>; rel="next"/): the target of the first link
\* of the header with rel="next"; null without a header or without a match.
NextLink(link) ==
    IF link = <<>> THEN NoUrl
    ELSE LET next == { i \in 1..Len(link) : link[i].rel = "next" }
         IN  IF next = {} THEN NoUrl
             ELSE link[CHOOSE i \in next : \A j \in next : i <= j].url

\* A call issues a request for url and waits for its response.
Await(c, url) ==
    [c EXCEPT !.pc = "await", !.url = url,
              !.requests = Append(@, Request(url, c.token))]

RetryOnFailure(c, response, message) == Await(c, c.url)

\* throw new Error(message)
Reject(c, response, message) == [c EXCEPT !.pc = "rejected", !.error = message]

ReturnLastPage(c, response, value) ==
    [c EXCEPT !.pc = "returned", !.acc = response.body,
              !.result = response.body]

\* return value
Return(c, response, value) ==
    [c EXCEPT !.pc = "returned", !.acc = value, !.result = value]

\* fetchRepositoryPullRequests(org, repo, token, options): up to the first
\* await.
StartFetchRepositoryPullRequests(org, repo, token, options) ==
    Await([NoCall EXCEPT !.fn = "fetchRepositoryPullRequests",
                         !.org = org, !.repo = repo, !.token = token],
          Url("pulls", org, repo, options @@ [per_page |-> PerPage]))

\* fetchRepositoryPullRequests: from a response to the next await or the end.
StepFetchRepositoryPullRequests(c, response) ==
    IF ~response.ok THEN Reject(c, response, ApiErrorMessage(response))
    ELSE LET allPRs == c.acc \o response.body
             url    == NextLink(response.link)
         IN  IF url /= NoUrl
             THEN Await([c EXCEPT !.acc = allPRs], url)
             ELSE Return(c, response, allPRs)

\* fetchAllUserOrganizations(token)
StartFetchAllUserOrganizations(token) ==
    Await([NoCall EXCEPT !.fn = "fetchAllUserOrganizations", !.token = token],
          Url("user/orgs", "", "", [per_page |-> PerPage]))

StepFetchAllUserOrganizations(c, response) ==
    IF ~response.ok THEN Reject(c, response, ApiErrorMessage(response))
    ELSE LET orgs == c.acc \o response.body
             url  == NextLink(response.link)
         IN  IF url /= NoUrl
             THEN Await([c EXCEPT !.acc = orgs], url)
             ELSE Return(c, response, orgs)

\* fetchUserOrganizations(token): one request, its body returned.
StartFetchUserOrganizations(token) ==
    Await([NoCall EXCEPT !.fn = "fetchUserOrganizations", !.token = token],
          Url("user/orgs", "", "", <<>>))

StepFetchUserOrganizations(c, response) ==
    IF ~response.ok THEN Reject(c, response, ApiErrorMessage(response))
    ELSE Return(c, response, response.body)

HasMoreWhileNotEmpty(repos) == Len(repos) > 0

\* hasMore = repos.length === 100
HasMore(repos) == Len(repos) = 100

\* fetchOrganizationRepositories(org, token)
StartFetchOrganizationRepositories(org, token) ==
    Await([NoCall EXCEPT !.fn = "fetchOrganizationRepositories",
                         !.org = org, !.token = token, !.page = 1,
                         !.hasMore = TRUE],
          Url("repos", org, "", [per_page |-> PerPage, page |-> 1]))

StepFetchOrganizationRepositoriesGeneric(c, response) ==
    IF ~response.ok
    THEN Reject(c, response, ApiErrorMessage(response))
    ELSE LET allRepos == c.acc \o response.body
             c1       == [c EXCEPT !.acc = allRepos,
                                   !.hasMore = HasMore(response.body),
                                   !.page = c.page + 1]
         IN  IF c1.hasMore
             THEN Await(c1, Url("repos", c.org, "",
                                [per_page |-> PerPage, page |-> c1.page]))
             ELSE Return(c1, response, allRepos)

StepFetchOrganizationRepositories(c, response) ==
    IF ~response.ok
    THEN IF response.status = 403
         THEN Reject(c, response, AccessDeniedMessage)
         ELSE Reject(c, response, ApiErrorMessage(response))
    ELSE LET repos    == response.body
             allRepos == c.acc \o repos
             hasMore  == HasMore(repos)
             page     == c.page + 1
             c1       == [c EXCEPT !.acc = allRepos, !.hasMore = hasMore,
                                   !.page = page]
         IN  IF hasMore
             THEN Await(c1, Url("repos", c.org, "",
                                [per_page |-> PerPage, page |-> page]))
             ELSE Return(c1, response, allRepos)

\* await fetch(...): the outstanding request is answered.
Receive(c, response) ==
    [c EXCEPT !.response = response, !.received = @ + 1]

\* The continuation of a call on the response to its outstanding request.
Step(c, response) ==
    CASE c.fn = "fetchRepositoryPullRequests" ->
           StepFetchRepositoryPullRequests(Receive(c, response), response)
      [] c.fn = "fetchAllUserOrganizations" ->
           StepFetchAllUserOrganizations(Receive(c, response), response)
      [] c.fn = "fetchUserOrganizations" ->
           StepFetchUserOrganizations(Receive(c, response), response)
      [] c.fn = "fetchOrganizationRepositories" ->
           StepFetchOrganizationRepositories(Receive(c, response), response)

----------------------------------------------------------------------------
(* The values of the variables a specification does not use *)

\* No date has been assigned yet (null).
NoDate == -1

\* No getGroupedPRs call has returned yet.
NotGrouped == [called |-> FALSE, value |-> [open |-> <<>>, closed |-> <<>>]]

\* Lines 154-157: the locals on entry; i is the position of the first loop.
WkStart ==
    [pc |-> "collect", i |-> 1, weekMap |-> <<>>, minDate |-> NoDate,
     maxDate |-> NoDate, d |-> NoDate, allWeeks |-> <<>>, lastWeekKey |-> "",
     result |-> <<>>]

\* No load has assigned the list yet.
NothingShown ==
    [gen |-> 0, outcome |-> "", org |-> "", repo |-> "", token |-> "",
     fetched |-> <<>>, failed |-> {}, order |-> <<>>, status |-> 0,
     responses |-> 0, fileRequests |-> <<>>]

\* render() has not been called.
NoRender ==
    [pc |-> "idle", grouped |-> [open |-> <<>>, closed |-> <<>>],
     closedCounts |-> <<>>, prsByUserPerWeek |-> <<>>, contributors |-> <<>>,
     combinedFileTypeStatsByUser |-> <<>>]

\* No getISOWeek call has been made.
NoISOCalls == [monday |-> NoDate, calls |-> <<>>]

\* No file list has been aggregated.
NoFt == [pc |-> "idle", a |-> <<>>, b |-> <<>>, ofA |-> <<>>, ofB |-> <<>>,
         ofAB |-> <<>>, ofBA |-> <<>>, combined |-> <<>>]

IdlePure == agg = NoRender /\ isoCalls = NoISOCalls /\ ft = NoFt

IdleAgg == wk = WkStart /\ grouped = NotGrouped /\ IdlePure

IdleFetch == srvTotal = 0 /\ call = NoCall

NoComponent == ""

\* The constructors of the components.
IdleFields ==
    /\ thisOrg = "" /\ thisRepo = "" /\ githubToken = "" /\ error = ""
    /\ repositories = <<>> /\ loads = <<>> /\ started = 0
    /\ shown = NothingShown
    /\ organizations = <<>> /\ selectedContributor = ""

IdleComp == IdleFields /\ component = NoComponent

----------------------------------------------------------------------------
(* getPRsByUserPerWeek *)

\* Lines 186-189: one entry per enumerated week for every user of weekMap.
FillWeeks(weekMap, allWeeks) ==
    [user \in DOMAIN weekMap |->
        [i \in 1..Len(allWeeks) |->
            [week |-> allWeeks[i],
             count |-> Lookup(weekMap[user], allWeeks[i], 0)]]]

\* Lines 158-169: one iteration of the first loop.
WeeklyCollect ==
    /\ wk.pc = "collect"
    /\ wk.i <= Len(pullRequests)
    /\ LET pr      == pullRequests[wk.i]
           user    == UserOf(pr)
           created == ParseDate(pr.created_at)
           weekKey == WeekKey(created)
           ofUser  == Lookup(wk.weekMap, user, <<>>)
           count   == Lookup(ofUser, weekKey, 0)
       IN  wk' = [wk EXCEPT
                    !.i = wk.i + 1,
                    !.weekMap = (user :> ((weekKey :> (count + 1)) @@ ofUser))
                                   @@ wk.weekMap,
                    !.minDate = IF wk.minDate = NoDate \/ created < wk.minDate
                                THEN created ELSE wk.minDate,
                    !.maxDate = IF wk.maxDate = NoDate \/ created > wk.maxDate
                                THEN created ELSE wk.maxDate]
    /\ UNCHANGED <<pullRequests, grouped, fetchVars, compVars, pureVars>>

WeeklyRangeNoEarlyReturn ==
    /\ wk.pc = "collect"
    /\ wk.i > Len(pullRequests)
    /\ IF wk.minDate = NoDate \/ wk.maxDate = NoDate
       THEN wk' = [wk EXCEPT !.pc = "threw"]
       ELSE wk' = [wk EXCEPT
                     !.pc = "loop",
                     !.d = AddDays(UTCMidnight(wk.minDate),
                             0 - ((GetUTCDay(UTCMidnight(wk.minDate)) + 6) % 7))]
    /\ UNCHANGED <<pullRequests, grouped, fetchVars, compVars, pureVars>>

\* Lines 170-176: after the first loop, up to the do/while loop.
WeeklyRange ==
    /\ wk.pc = "collect"
    /\ wk.i > Len(pullRequests)
    /\ IF wk.minDate = NoDate \/ wk.maxDate = NoDate
       THEN wk' = [wk EXCEPT !.pc = "done"]
       ELSE wk' = [wk EXCEPT
                     !.pc = "loop",
                     !.d = AddDays(UTCMidnight(wk.minDate),
                             0 - ((GetUTCDay(UTCMidnight(wk.minDate)) + 6) % 7))]
    /\ UNCHANGED <<pullRequests, grouped, fetchVars, compVars, pureVars>>

\* Lines 177-190: one iteration of the do/while loop, the test of its
\* condition and, when the loop ends, the rest of the function.
WeeklyLoop ==
    /\ wk.pc = "loop"
    /\ Len(wk.allWeeks) < MaxWeeks
    /\ LET weekKey  == WeekKey(wk.d)
           allWeeks == Append(wk.allWeeks, weekKey)
           d        == AddDays(wk.d, 7)
           again    == d <= wk.maxDate \/ weekKey /= WeekKey(wk.maxDate)
       IN  wk' = [wk EXCEPT
                    !.allWeeks = allWeeks, !.lastWeekKey = weekKey, !.d = d,
                    !.pc = IF again THEN "loop" ELSE "done",
                    !.result = IF again THEN <<>>
                               ELSE FillWeeks(wk.weekMap, allWeeks)]
    /\ UNCHANGED <<pullRequests, grouped, fetchVars, compVars, pureVars>>

InitWeekly ==
    /\ IsPRList(pullRequests, MaxWeeklyPRs, {"open"}, Logins, CreatedAts)
    /\ IdleAgg /\ IdleFetch /\ IdleComp

NextWeekly == WeeklyCollect \/ WeeklyRange \/ WeeklyLoop

SpecWeekly == InitWeekly /\ [][NextWeekly]_vars

----------------------------------------------------------------------------
(* getGroupedPRs *)

PRStates == {"open", "closed", "merged"}

GroupStateOpenUnlessClosed(pr) == IF pr.state = "closed" THEN "closed" ELSE "open"

\* pr.state === 'open' ? 'open' : 'closed'
GroupState(pr) == IF pr.state = "open" THEN "open" ELSE "closed"

\* The loop of getGroupedPRs over prs[i..].
RECURSIVE GroupPRs(_, _, _)
GroupPRs(prs, i, acc) ==
    IF i > Len(prs) THEN acc
    ELSE
      LET pr    == prs[i]
          state == GroupState(pr)
          user  == UserOf(pr)
          list  == Lookup(acc[state], user, <<>>)
      IN  GroupPRs(prs, i + 1,
                   [acc EXCEPT ![state] = (user :> Append(list, pr)) @@ @])

\* PullRequestList.getGroupedPRs()
GetGroupedPRs(prs) == GroupPRs(prs, 1, [open |-> <<>>, closed |-> <<>>])

CallGetGroupedPRs ==
    /\ grouped' = [called |-> TRUE, value |-> GetGroupedPRs(pullRequests)]
    /\ UNCHANGED <<pullRequests, wk, fetchVars, compVars, pureVars>>

FixedDate == [y |-> 2024, m |-> 1, d |-> 3, t |-> 0]

InitGroup ==
    /\ IsPRList(pullRequests, MaxPRs, PRStates, Logins \cup {NullUser},
                {FixedDate})
    /\ IdleAgg /\ IdleFetch /\ IdleComp

NextGroup == CallGetGroupedPRs

SpecGroup == InitGroup /\ [][NextGroup]_vars

----------------------------------------------------------------------------
(* SpecFetch: one call of a service function against a server that holds   *)
(* srvTotal items, numbered in server order, and serves pages as large as  *)
(* asked (up to PerPage); any response may instead be a failure.           *)

SrvItems(n) == [i \in 1..n |-> i]

Totals ==
    { p * PerPage + r : p \in 0..MaxFullPages, r \in {0, 1, 37} }

CallFetchRepositoryPullRequests ==
    /\ call.pc = "idle"
    /\ call' = StartFetchRepositoryPullRequests("acme", "web", "t1",
                                                [state |-> "all"])
    /\ UNCHANGED <<pullRequests, aggVars, srvTotal, compVars>>

CallFetchAllUserOrganizations ==
    /\ call.pc = "idle"
    /\ call' = StartFetchAllUserOrganizations("t1")
    /\ UNCHANGED <<pullRequests, aggVars, srvTotal, compVars>>

CallFetchUserOrganizations ==
    /\ call.pc = "idle"
    /\ call' = StartFetchUserOrganizations("t1")
    /\ UNCHANGED <<pullRequests, aggVars, srvTotal, compVars>>

CallFetchOrganizationRepositories ==
    /\ call.pc = "idle"
    /\ call' = StartFetchOrganizationRepositories("acme", "t1")
    /\ UNCHANGED <<pullRequests, aggVars, srvTotal, compVars>>

\* The response to the outstanding request arrives: the page asked for.
PageArrives ==
    /\ call.pc = "await"
    /\ call' = Step(call, OkResponse(SrvItems(srvTotal), call.url, PerPage))
    /\ UNCHANGED <<pullRequests, aggVars, srvTotal, compVars>>

\* The response to the outstanding request arrives: a non-2xx status.
FailureArrives ==
    /\ call.pc = "await"
    /\ \E status \in ErrorStatuses :
         call' = Step(call, ErrorResponse(status))
    /\ UNCHANGED <<pullRequests, aggVars, srvTotal, compVars>>

InitFetch ==
    /\ pullRequests = <<>>
    /\ IdleAgg /\ IdleComp
    /\ srvTotal \in Totals
    /\ call = NoCall

NextFetch ==
    \/ CallFetchRepositoryPullRequests
    \/ CallFetchAllUserOrganizations
    \/ CallFetchUserOrganizations
    \/ CallFetchOrganizationRepositories
    \/ PageArrives
    \/ FailureArrives

SpecFetch == InitFetch /\ [][NextFetch]_vars

----------------------------------------------------------------------------
(* The server behind PullRequestList: two repositories of one organization *)
(* and the files of their pull requests.  A file name is the sequence of   *)
(* its characters.                                                         *)

Orgs == {"", "acme"}

Repos == {"", "web", "api"}

Tokens == {"", "t1"}

ServerPRs(org, repo) ==
    CASE org = "acme" /\ repo = "web" ->
           <<PR(1, "open", "alice", FixedDate),
             PR(2, "closed", "bob", FixedDate)>>
      [] org = "acme" /\ repo = "api" ->
           <<PR(1, "closed", "alice", FixedDate)>>
      [] OTHER -> <<>>

File(filename, additions, deletions) ==
    [filename |-> filename, additions |-> additions,
     deletions |-> deletions]

ServerFiles(org, repo, number) ==
    CASE org = "acme" /\ repo = "web" /\ number = 1 ->
           <<File(<<"a", ".", "j", "s">>, 3, 1),
             File(<<"R", "E", "A", "D", "M", "E">>, 2, 0)>>
      [] org = "acme" /\ repo = "web" /\ number = 2 ->
           <<File(<<"b", ".", "t", ".", "j", "s">>, 5, 2)>>
      [] org = "acme" /\ repo = "api" /\ number = 1 ->
           <<File(<<"m", ".", "p", "y">>, 4, 0)>>
      [] OTHER -> <<>>

\* https://api.github.com/repos/<org>/<repo>/pulls/<number>/files
FilesUrl(org, repo, number) ==
    [endpoint |-> "pulls/files", org |-> org, repo |-> repo,
     number |-> number]

\* The server knows the pull request a files URL names.
SrvHasPR(url) ==
    \E i \in 1..Len(ServerPRs(url.org, url.repo)) :
        ServerPRs(url.org, url.repo)[i].number = url.number

----------------------------------------------------------------------------
(* PullRequestList.loadPullRequests *)

\* filename.split('.').pop(): the characters after the last dot, all of
\* them without a dot.
SplitPop(filename) ==
    LET dots == { i \in 1..Len(filename) : filename[i] = "." }
        last == IF dots = {} THEN 0
                ELSE CHOOSE i \in dots : \A j \in dots : j <= i
    IN  SubSeq(filename, last + 1, Len(filename))

RECURSIVE Join(_)
Join(chars) == IF chars = <<>> THEN "" ELSE Head(chars) \o Join(Tail(chars))

\* const ext = file.filename.split('.').pop() || 'other'
Ext(filename) ==
    IF SplitPop(filename) = <<>> THEN "other" ELSE Join(SplitPop(filename))

NoStatsCountOne == [count |-> 1, additions |-> 0, deletions |-> 0]

\* { count: 0, additions: 0, deletions: 0 }
NoStats == [count |-> 0, additions |-> 0, deletions |-> 0]

\* Lines 103-109: the loop over the files of one pull request.
RECURSIVE FileTypeStatsLoop(_, _)
FileTypeStatsLoop(files, fileTypeStats) ==
    IF files = <<>> THEN fileTypeStats
    ELSE LET file == Head(files)
             ext  == Ext(file.filename)
             old  == Lookup(fileTypeStats, ext, NoStats)
         IN  FileTypeStatsLoop(Tail(files),
                (ext :> [count |-> old.count + 1,
                         additions |-> old.additions + file.additions,
                         deletions |-> old.deletions + file.deletions])
                @@ fileTypeStats)

FileTypeStats(files) == FileTypeStatsLoop(files, <<>>)

\* Line 110: { ...pr, files, fileTypeStats }
FileOk(pr, files) ==
    [files |-> files, fileTypeStats |-> FileTypeStats(files)] @@ pr

\* Line 100: { ...pr, files: [] }
FileNotOk(pr) == [files |-> <<>>] @@ pr

\* Line 112: { ...pr, files: [], fileTypeStats: {} }
FileThrown(pr) == [files |-> <<>>, fileTypeStats |-> <<>>] @@ pr

\* A load call: gen numbers the calls in the order they started; stage is
\* "list" while fetchRepositoryPullRequests runs and "files" while the
\* file requests are outstanding; values are the promises of prs.map, by
\* position; settled, failed and order tell which of them have settled,
\* which on a failed fetch, and in which order.
NewLoad(gen, org, repo, token) ==
    [gen |-> gen, stage |-> "list",
     call |-> StartFetchRepositoryPullRequests(org, repo, token,
                                               [state |-> "all"]),
     fileRequests |-> <<>>, values |-> <<>>, settled |-> {}, failed |-> {},
     order |-> <<>>]

Remove(seq, i) == SubSeq(seq, 1, i - 1) \o SubSeq(seq, i + 1, Len(seq))

Shown(l, outcome) ==
    [gen |-> l.gen, outcome |-> outcome, org |-> l.call.org,
     repo |-> l.call.repo, token |-> l.call.token,
     fetched |-> l.call.result, failed |-> l.failed, order |-> l.order,
     status |-> l.call.response.status, responses |-> l.call.received,
     fileRequests |-> l.fileRequests]

PromiseAllInCompletionOrder(l) ==
    [k \in 1..Len(l.order) |-> l.values[l.order[k]]]

\* Promise.all: the values of the promises, in the order of the promises.
PromiseAll(l) == l.values

LoadSucceedsIfCurrent(i, l) ==
    /\ loads' = Remove(loads, i)
    /\ IF <<l.call.org, l.call.repo, l.call.token>>
            = <<thisOrg, thisRepo, githubToken>>
       THEN /\ pullRequests' = PromiseAll(l)
            /\ error' = ""
            /\ shown' = Shown(l, "success")
       ELSE UNCHANGED <<pullRequests, error, shown>>

\* Lines 115-116: the list and its files are there.
LoadSucceeds(i, l) ==
    /\ pullRequests' = PromiseAll(l)
    /\ error' = ""
    /\ loads' = Remove(loads, i)
    /\ shown' = Shown(l, "success")

LoadFailsKeepingList(i, l) ==
    /\ error' = l.call.error
    /\ loads' = Remove(loads, i)
    /\ shown' = Shown(l, "failure")
    /\ UNCHANGED pullRequests

\* Lines 117-120: the catch of loadPullRequests.
LoadFails(i, l) ==
    /\ pullRequests' = <<>>
    /\ error' = l.call.error
    /\ loads' = Remove(loads, i)
    /\ shown' = Shown(l, "failure")

\* Lines 83-87 and 90: the properties change, updated() calls
\* loadPullRequests, which runs up to its first await.
SetProperties ==
    \E org \in Orgs, repo \in Repos, token \in Tokens :
        /\ <<org, repo, token>> /= <<thisOrg, thisRepo, githubToken>>
        /\ thisOrg' = org
        /\ thisRepo' = repo
        /\ githubToken' = token
        /\ IF org = "" \/ repo = "" \/ token = ""
           THEN /\ pullRequests' = <<>>
                /\ error' = ""
                /\ shown' = [NothingShown EXCEPT !.outcome = "reset"]
                /\ UNCHANGED <<loads, started>>
           ELSE /\ started < MaxLoads
                /\ started' = started + 1
                /\ loads' = Append(loads,
                                   NewLoad(started + 1, org, repo, token))
                /\ UNCHANGED <<pullRequests, error, shown>>
        /\ UNCHANGED <<aggVars, fetchVars, repositories, viewVars>>

\* Lines 90-99: a response to the list request of load i has been handled
\* by fetchRepositoryPullRequests, leaving its call as c.  When it has
\* returned, prs.map issues one file request per pull request, each from
\* this.org, this.repo and this.githubToken as they are now.
AfterList(i, c) ==
    LET l   == [loads[i] EXCEPT !.call = c]
        prs == c.result
    IN  /\ CASE c.pc = "rejected" -> LoadFails(i, l)
             [] c.pc = "returned" /\ prs = <<>> -> LoadSucceeds(i, l)
             [] c.pc = "returned" /\ prs /= <<>> ->
                  /\ loads' = [loads EXCEPT ![i] =
                        [l EXCEPT !.stage = "files",
                                  !.values = prs,
                                  !.fileRequests =
                                     [k \in 1..Len(prs) |->
                                        Request(FilesUrl(thisOrg, thisRepo,
                                                         prs[k].number),
                                                githubToken)]]]
                  /\ UNCHANGED <<pullRequests, error, shown>>
             [] OTHER ->
                  /\ loads' = [loads EXCEPT ![i] = l]
                  /\ UNCHANGED <<pullRequests, error, shown>>
        /\ UNCHANGED <<thisOrg, thisRepo, githubToken, started, aggVars,
                       fetchVars, repositories, viewVars>>

ListPageArrives ==
    \E i \in 1..Len(loads) :
        /\ loads[i].stage = "list"
        /\ LET url == loads[i].call.url
           IN  AfterList(i, Step(loads[i].call,
                                 OkResponse(ServerPRs(url.org, url.repo),
                                            url, LoadSrvMax)))

ListFailureArrives ==
    \E i \in 1..Len(loads), status \in ErrorStatuses :
        /\ loads[i].stage = "list"
        /\ AfterList(i, Step(loads[i].call, ErrorResponse(status)))

AfterFileAssignsEach(i, k, value, failed) ==
    LET l == [loads[i] EXCEPT
                !.values[k] = value,
                !.settled = @ \cup {k},
                !.failed = IF failed THEN @ \cup {k} ELSE @,
                !.order = Append(@, k)]
    IN  /\ IF l.settled = 1..Len(l.values)
           THEN LoadSucceeds(i, l)
           ELSE /\ loads' = [loads EXCEPT ![i] = l]
                /\ pullRequests' = l.values
                /\ error' = ""
                /\ shown' = Shown(l, "success")
        /\ UNCHANGED <<thisOrg, thisRepo, githubToken, started, aggVars,
                       fetchVars, repositories, viewVars>>

\* Lines 93-114: the file request k of load i settles with value; the load
\* goes on when all of them have.
AfterFile(i, k, value, failed) ==
    LET l == [loads[i] EXCEPT
                !.values[k] = value,
                !.settled = @ \cup {k},
                !.failed = IF failed THEN @ \cup {k} ELSE @,
                !.order = Append(@, k)]
    IN  /\ IF l.settled = 1..Len(l.values)
           THEN LoadSucceeds(i, l)
           ELSE /\ loads' = [loads EXCEPT ![i] = l]
                /\ UNCHANGED <<pullRequests, error, shown>>
        /\ UNCHANGED <<thisOrg, thisRepo, githubToken, started, aggVars,
                       fetchVars, repositories, viewVars>>

\* The server answers a file request with the files of the pull request.
FilesArrive ==
    \E i \in 1..Len(loads) :
        /\ loads[i].stage = "files"
        /\ \E k \in (1..Len(loads[i].values)) \ loads[i].settled :
             LET url == loads[i].fileRequests[k].url
             IN  /\ SrvHasPR(url)
                 /\ AfterFile(i, k,
                        FileOk(loads[i].values[k],
                               ServerFiles(url.org, url.repo, url.number)),
                        FALSE)

\* The server answers a file request with a non-2xx status.
FilesFailureArrives ==
    \E i \in 1..Len(loads) :
        /\ loads[i].stage = "files"
        /\ \E k \in (1..Len(loads[i].values)) \ loads[i].settled :
             AfterFile(i, k, FileNotOk(loads[i].values[k]), TRUE)

\* fetch or res.json() throws.
FilesThrow ==
    \E i \in 1..Len(loads) :
        /\ loads[i].stage = "files"
        /\ \E k \in (1..Len(loads[i].values)) \ loads[i].settled :
             AfterFile(i, k, FileThrown(loads[i].values[k]), TRUE)

InitLoad ==
    /\ pullRequests = <<>>
    /\ IdleAgg /\ IdleFetch /\ IdleComp

NextLoad ==
    \/ SetProperties
    \/ ListPageArrives
    \/ ListFailureArrives
    \/ FilesArrive
    \/ FilesFailureArrives
    \/ FilesThrow

SpecLoad == InitLoad /\ [][NextLoad]_vars

----------------------------------------------------------------------------
(* OrganizationRepoList.  Its server holds the repositories of two         *)
(* organizations, the larger with more than one page of them; the name of  *)
(* a repository is given by its rank in the order of localeCompare, and    *)
(* the server lists the repositories in another order.                     *)

RepoOrgs == {"", "acme", "beta"}

RepoCount(org) ==
    CASE org = "acme" -> PerPage + 1
      [] org = "beta" -> 2
      [] OTHER -> 0

ServerRepos(org) ==
    [i \in 1..RepoCount(org) |->
        [id |-> i, name |-> ((i * 7) % RepoCount(org)) + 1]]

\* [...repos].sort((a, b) => a.name.localeCompare(b.name))
SortByName(repos) == SortSeq(repos, LAMBDA a, b : a.name < b.name)

NewRepoLoad(gen, org, token) ==
    [gen |-> gen, stage |-> "repos",
     call |-> StartFetchOrganizationRepositories(org, token),
     fileRequests |-> <<>>, values |-> <<>>, settled |-> {}, failed |-> {},
     order |-> <<>>]

\* Lines 86-90 and 97-103: the properties change, updated() calls
\* loadRepositories, which runs up to its await.
RepoListSetProperties ==
    \E org \in RepoOrgs, token \in Tokens :
        /\ <<org, token>> /= <<thisOrg, githubToken>>
        /\ thisOrg' = org
        /\ githubToken' = token
        /\ IF org = "" \/ token = ""
           THEN /\ repositories' = <<>>
                /\ error' = ""
                /\ shown' = [NothingShown EXCEPT !.outcome = "reset"]
                /\ UNCHANGED <<loads, started>>
           ELSE /\ started < MaxLoads
                /\ started' = started + 1
                /\ loads' = Append(loads, NewRepoLoad(started + 1, org, token))
                /\ UNCHANGED <<repositories, error, shown>>
        /\ UNCHANGED <<pullRequests, thisRepo, aggVars, fetchVars,
                       viewVars>>

AfterReposKeepingError(i, c) ==
    LET l == [loads[i] EXCEPT !.call = c]
    IN  /\ CASE c.pc = "returned" ->
                  /\ repositories' = SortByName(c.result)
                  /\ loads' = Remove(loads, i)
                  /\ shown' = Shown(l, "success")
                  /\ UNCHANGED error
             [] c.pc = "rejected" ->
                  /\ repositories' = <<>>
                  /\ error' = c.error
                  /\ loads' = Remove(loads, i)
                  /\ shown' = Shown(l, "failure")
             [] OTHER ->
                  /\ loads' = [loads EXCEPT ![i] = l]
                  /\ UNCHANGED <<repositories, error, shown>>
        /\ UNCHANGED <<pullRequests, thisOrg, thisRepo, githubToken, started,
                       aggVars, fetchVars, viewVars>>

\* Lines 104-110: a response to the request of load i has been handled by
\* fetchOrganizationRepositories, leaving its call as c.
AfterRepos(i, c) ==
    LET l == [loads[i] EXCEPT !.call = c]
    IN  /\ CASE c.pc = "returned" ->
                  /\ repositories' = SortByName(c.result)
                  /\ error' = ""
                  /\ loads' = Remove(loads, i)
                  /\ shown' = Shown(l, "success")
             [] c.pc = "rejected" ->
                  /\ repositories' = <<>>
                  /\ error' = c.error
                  /\ loads' = Remove(loads, i)
                  /\ shown' = Shown(l, "failure")
             [] OTHER ->
                  /\ loads' = [loads EXCEPT ![i] = l]
                  /\ UNCHANGED <<repositories, error, shown>>
        /\ UNCHANGED <<pullRequests, thisOrg, thisRepo, githubToken, started,
                       aggVars, fetchVars,
                       viewVars>>

ReposPageArrives ==
    \E i \in 1..Len(loads) :
        /\ loads[i].stage = "repos"
        /\ LET url == loads[i].call.url
           IN  AfterRepos(i, Step(loads[i].call,
                                  OkResponse(ServerRepos(url.org), url,
                                             PerPage)))

ReposFailureArrives ==
    \E i \in 1..Len(loads), status \in ErrorStatuses :
        /\ loads[i].stage = "repos"
        /\ AfterRepos(i, Step(loads[i].call, ErrorResponse(status)))

InitRepos ==
    /\ pullRequests = <<>>
    /\ IdleAgg /\ IdleFetch /\ IdleComp

NextRepos ==
    \/ RepoListSetProperties
    \/ ReposPageArrives
    \/ ReposFailureArrives

SpecRepos == InitRepos /\ [][NextRepos]_vars

----------------------------------------------------------------------------
(* OrganizationList, connected with an empty token.  Its server holds the  *)
(* organizations of the users of two tokens, those of the first on more    *)
(* than one page; the login of an organization is given by its rank in the *)
(* order of localeCompare, and the server lists them in another order.     *)

OrgTokens == {"", "t1", "t2"}

ServerOrgs(token) ==
    CASE token = "t1" -> <<[id |-> 1, login |-> 3], [id |-> 2, login |-> 1],
                           [id |-> 3, login |-> 4]>>
      [] token = "t2" -> <<[id |-> 4, login |-> 2]>>
      [] OTHER -> <<>>

\* [...orgs].sort((a, b) => a.login.localeCompare(b.login))
SortByLogin(orgs) == SortSeq(orgs, LAMBDA a, b : a.login < b.login)

NewOrgLoad(gen, token) ==
    [gen |-> gen, stage |-> "orgs",
     call |-> StartFetchAllUserOrganizations(token),
     fileRequests |-> <<>>, values |-> <<>>, settled |-> {}, failed |-> {},
     order |-> <<>>]

\* Lines 64-80: githubToken changes; updated() calls loadOrganizations when
\* the token is not empty, and loadOrganizations runs up to its await.
OrgListSetToken ==
    \E token \in OrgTokens :
        /\ token /= githubToken
        /\ githubToken' = token
        /\ IF token /= ""
           THEN /\ started < MaxLoads
                /\ started' = started + 1
                /\ loads' = Append(loads, NewOrgLoad(started + 1, token))
           ELSE UNCHANGED <<loads, started>>
        /\ UNCHANGED <<pullRequests, thisOrg, thisRepo, error, repositories,
                       shown, organizations, selectedContributor, component,
                       aggVars, fetchVars>>

AfterOrgsMerging(i, c) ==
    LET l == [loads[i] EXCEPT !.call = c]
    IN  /\ CASE c.pc = "returned" ->
                  /\ organizations' = SortByLogin(organizations \o c.result)
                  /\ error' = ""
                  /\ loads' = Remove(loads, i)
                  /\ shown' = Shown(l, "success")
             [] c.pc = "rejected" ->
                  /\ organizations' = <<>>
                  /\ error' = c.error
                  /\ loads' = Remove(loads, i)
                  /\ shown' = Shown(l, "failure")
             [] OTHER ->
                  /\ loads' = [loads EXCEPT ![i] = l]
                  /\ UNCHANGED <<organizations, error, shown>>
        /\ UNCHANGED <<pullRequests, thisOrg, thisRepo, githubToken, started,
                       repositories, selectedContributor, component, aggVars,
                       fetchVars>>

\* Lines 79-86: a response to the request of load i has been handled by
\* fetchAllUserOrganizations, leaving its call as c.
AfterOrgs(i, c) ==
    LET l == [loads[i] EXCEPT !.call = c]
    IN  /\ CASE c.pc = "returned" ->
                  /\ organizations' = SortByLogin(c.result)
                  /\ error' = ""
                  /\ loads' = Remove(loads, i)
                  /\ shown' = Shown(l, "success")
             [] c.pc = "rejected" ->
                  /\ organizations' = <<>>
                  /\ error' = c.error
                  /\ loads' = Remove(loads, i)
                  /\ shown' = Shown(l, "failure")
             [] OTHER ->
                  /\ loads' = [loads EXCEPT ![i] = l]
                  /\ UNCHANGED <<organizations, error, shown>>
        /\ UNCHANGED <<pullRequests, thisOrg, thisRepo, githubToken, started,
                       repositories, selectedContributor, component, aggVars,
                       fetchVars>>

OrgsPageArrives ==
    \E i \in 1..Len(loads) :
        /\ loads[i].stage = "orgs"
        /\ AfterOrgs(i, Step(loads[i].call,
                             OkResponse(ServerOrgs(loads[i].call.token),
                                        loads[i].call.url, LoadSrvMax)))

OrgsFailureArrives ==
    \E i \in 1..Len(loads), status \in ErrorStatuses :
        /\ loads[i].stage = "orgs"
        /\ AfterOrgs(i, Step(loads[i].call, ErrorResponse(status)))

InitOrgs ==
    /\ pullRequests = <<>>
    /\ IdleAgg /\ IdleFetch /\ IdleComp

NextOrgs ==
    \/ OrgListSetToken
    \/ OrgsPageArrives
    \/ OrgsFailureArrives

SpecOrgs == InitOrgs /\ [][NextOrgs]_vars

----------------------------------------------------------------------------
(* One of the three list components, whichever, from its construction.     *)

Components == {"PullRequestList", "OrganizationRepoList", "OrganizationList"}

InitComponents ==
    /\ pullRequests = <<>>
    /\ IdleAgg /\ IdleFetch /\ IdleFields
    /\ component \in Components

NextComponents ==
    \/ component = "PullRequestList" /\ NextLoad
    \/ component = "OrganizationRepoList" /\ NextRepos
    \/ component = "OrganizationList" /\ NextOrgs

SpecComponents == InitComponents /\ [][NextComponents]_vars

----------------------------------------------------------------------------
(* The aggregations of PullRequestList, called one after the other, in the *)
(* order in which render() calls them, on pull requests as                 *)
(* loadPullRequests leaves them.                                           *)

\* Array.prototype.sort, by a comparator or by the default order, given
\* as the set less of the pairs <<a, b>> with a before b: the elements
\* less than an element come before it, and elements neither of which is
\* less than the other keep their order.
StableSort(seq, less) ==
    LET n       == Len(seq)
        rank(i) == Cardinality({ j \in 1..n :
                       \/ <<seq[j], seq[i]>> \in less
                       \/ (<<seq[i], seq[j]>> \notin less /\ j < i) }) + 1
    IN  [r \in 1..n |-> seq[CHOOSE i \in 1..n : rank(i) = r]]

Range(seq) == { seq[i] : i \in 1..Len(seq) }

\* The keys of an object built by a loop over prs, or the elements of a
\* Set built from them: the users of the pull requests, each once, in the
\* order of their first occurrence.
UsersInOrder(prs) ==
    LET first == { i \in 1..Len(prs) :
                     \A j \in 1..(i - 1) : UserOf(prs[j]) /= UserOf(prs[i]) }
        idx   == [i \in 1..Len(prs) |-> i]
    IN  [k \in 1..Cardinality(first) |->
            UserOf(prs[SelectSeq(idx, LAMBDA i : i \in first)[k]])]

NoIndex == -1

\* The array index that a property key is, if it is the canonical decimal
\* form of one; of the author names of the model "7" and "42" are.
ArrayIndex(key) ==
    CASE key = "7"  -> 7
      [] key = "42" -> 42
      [] OTHER      -> NoIndex

\* The own keys of an object to which the keys were added in the given
\* order, as Object.entries enumerates them: the array indices in ascending
\* numeric order, then the other strings in the order of their creation.
OwnPropertyKeys(keys) ==
    StableSort(keys, { ab \in Range(keys) \X Range(keys) :
                         /\ ArrayIndex(ab[1]) /= NoIndex
                         /\ \/ ArrayIndex(ab[2]) = NoIndex
                            \/ ArrayIndex(ab[1]) < ArrayIndex(ab[2]) })

CountAscending(a, b) == a.count < b.count

\* (a, b) => b.count - a.count
CountDescending(a, b) == b.count - a.count < 0

\* Lines 142-146.
GetClosedPRCountsByUser(prs) ==
    LET groupedPRs == GetGroupedPRs(prs)
        users      == OwnPropertyKeys(UsersInOrder(
                          SelectSeq(prs, LAMBDA pr : GroupState(pr) = "closed")))
        counts     == [k \in 1..Len(users) |->
                          [user |-> users[k],
                           count |-> Len(groupedPRs.closed[users[k]])]]
    IN  StableSort(counts, { ab \in Range(counts) \X Range(counts) :
                                 CountDescending(ab[1], ab[2]) })

\* The UTF-16 code units of the author names of the model.
CodeUnits(s) ==
    CASE s = "alice"   -> <<97, 108, 105, 99, 101>>
      [] s = "bob"     -> <<98, 111, 98>>
      [] s = "unknown" -> <<117, 110, 107, 110, 111, 119, 110>>

\* The order of Array.prototype.sort without a comparator: strings by their
\* code units.
CodeUnitLess(s, t) ==
    LET a == CodeUnits(s)
        b == CodeUnits(t)
    IN  \E k \in 1..(Min(Len(a), Len(b)) + 1) :
            /\ \A j \in 1..(k - 1) : a[j] = b[j]
            /\ \/ k > Len(a) /\ k <= Len(b)
               \/ k <= Len(a) /\ k <= Len(b) /\ a[k] < b[k]

GetContributorsUnsorted(prs) == UsersInOrder(prs)

\* Lines 291-294.
GetContributors(prs) ==
    LET users == UsersInOrder(prs)
    IN  StableSort(users, { st \in Range(users) \X Range(users) :
                              CodeUnitLess(st[1], st[2]) })

NoTotals == [additions |-> 0, deletions |-> 0, count |-> 0]

AddFileTypeStatsOverwrite(ofUser, fileTypeStats) == fileTypeStats @@ ofUser

\* Lines 306-311: the stats of one pull request added to those of its user.
AddFileTypeStats(ofUser, fileTypeStats) ==
    [ext \in DOMAIN ofUser \cup DOMAIN fileTypeStats |->
        IF ext \in DOMAIN fileTypeStats
        THEN LET old == Lookup(ofUser, ext, NoTotals)
             IN  [additions |-> old.additions + fileTypeStats[ext].additions,
                  deletions |-> old.deletions + fileTypeStats[ext].deletions,
                  count |-> old.count + fileTypeStats[ext].count]
        ELSE ofUser[ext]]

RECURSIVE CombineFileTypeStatsResetting(_, _, _)
CombineFileTypeStatsResetting(prs, i, stats) ==
    IF i > Len(prs) THEN stats
    ELSE CombineFileTypeStatsResetting(prs, i + 1,
            (UserOf(prs[i]) :> (IF "fileTypeStats" \in DOMAIN prs[i]
                                THEN prs[i].fileTypeStats ELSE <<>>)) @@ stats)

\* Lines 302-313: the loop over prs[i..].
RECURSIVE CombineFileTypeStats(_, _, _)
CombineFileTypeStats(prs, i, stats) ==
    IF i > Len(prs) THEN stats
    ELSE
      LET pr     == prs[i]
          user   == UserOf(pr)
          ofUser == Lookup(stats, user, <<>>)
      IN  CombineFileTypeStats(prs, i + 1,
            (user :> (IF "fileTypeStats" \in DOMAIN pr
                      THEN AddFileTypeStats(ofUser, pr.fileTypeStats)
                      ELSE ofUser)) @@ stats)

\* Lines 300-315.
GetCombinedFileTypeStatsByUser(prs) == CombineFileTypeStats(prs, 1, <<>>)

\* The pull requests of the aggregations: the outcome of the file fetch of
\* each is one of those of loadPullRequests.
AggStates == {"open", "closed"}

FileOutcomes == {"ok", "notok", "thrown"}

SampleFiles == ServerFiles("acme", "web", 1)

Loaded(pr, outcome) ==
    CASE outcome = "ok"     -> FileOk(pr, SampleFiles)
      [] outcome = "notok"  -> FileNotOk(pr)
      [] outcome = "thrown" -> FileThrown(pr)

IsLoadedPRList(prs, n) ==
    \E k \in 0..n :
      \E f \in [1..k -> AggStates \X (Logins \cup {NullUser}) \X FileOutcomes] :
        prs = [i \in 1..k |->
                 Loaded(PR(i, f[i][1], f[i][2], FixedDate), f[i][3])]

CallAggGetGroupedPRs ==
    /\ agg.pc = "idle"
    /\ agg' = [agg EXCEPT !.pc = "closedCounts",
                          !.grouped = GetGroupedPRs(pullRequests)]
    /\ UNCHANGED <<pullRequests, wk, grouped, isoCalls, ft, fetchVars,
                   compVars>>

CallGetClosedPRCountsByUser ==
    /\ agg.pc = "closedCounts"
    /\ agg' = [agg EXCEPT !.pc = "prsByUserPerWeek",
                          !.closedCounts =
                              GetClosedPRCountsByUser(pullRequests)]
    /\ UNCHANGED <<pullRequests, wk, grouped, isoCalls, ft, fetchVars,
                   compVars>>

\* A step of the getPRsByUserPerWeek call.
StepGetPRsByUserPerWeek ==
    /\ agg.pc = "prsByUserPerWeek"
    /\ NextWeekly

\* The getPRsByUserPerWeek call returns.
ReturnGetPRsByUserPerWeek ==
    /\ agg.pc = "prsByUserPerWeek"
    /\ wk.pc = "done"
    /\ agg' = [agg EXCEPT !.pc = "contributors",
                          !.prsByUserPerWeek = wk.result]
    /\ UNCHANGED <<pullRequests, wk, grouped, isoCalls, ft, fetchVars,
                   compVars>>

CallGetContributors ==
    /\ agg.pc = "contributors"
    /\ agg' = [agg EXCEPT !.pc = "combinedFileTypeStatsByUser",
                          !.contributors = GetContributors(pullRequests)]
    /\ UNCHANGED <<pullRequests, wk, grouped, isoCalls, ft, fetchVars,
                   compVars>>

CallGetCombinedFileTypeStatsByUser ==
    /\ agg.pc = "combinedFileTypeStatsByUser"
    /\ agg' = [agg EXCEPT !.pc = "done",
                          !.combinedFileTypeStatsByUser =
                              GetCombinedFileTypeStatsByUser(pullRequests)]
    /\ UNCHANGED <<pullRequests, wk, grouped, isoCalls, ft, fetchVars,
                   compVars>>

InitAgg ==
    /\ IsLoadedPRList(pullRequests, MaxAggPRs)
    /\ IdleAgg /\ IdleFetch /\ IdleComp

NextAgg ==
    \/ CallAggGetGroupedPRs
    \/ CallGetClosedPRCountsByUser
    \/ StepGetPRsByUserPerWeek
    \/ ReturnGetPRsByUserPerWeek
    \/ CallGetContributors
    \/ CallGetCombinedFileTypeStatsByUser

SpecAgg == InitAgg /\ [][NextAgg]_vars

----------------------------------------------------------------------------
(* getClosedPRCountsByUser on pull requests whose authors include names    *)
(* that are array indices when used as property keys.                      *)

MaxClosedPRs == 3

\* GitHub logins are alphanumeric with single inner hyphens; "7" and "42"
\* are logins made of digits.
ClosedLogins == Logins \cup {"7", "42"}

IsClosedPRList(prs, n) ==
    \E k \in 1..n :
      \E f \in [1..k -> AggStates \X ClosedLogins] :
        prs = [i \in 1..k |->
                 Loaded(PR(i, f[i][1], f[i][2], FixedDate), "ok")]

InitClosed ==
    /\ IsClosedPRList(pullRequests, MaxClosedPRs)
    /\ IdleAgg /\ IdleFetch /\ IdleComp

NextClosed ==
    \/ CallAggGetGroupedPRs
    \/ CallGetClosedPRCountsByUser

SpecClosed == InitClosed /\ [][NextClosed]_vars

----------------------------------------------------------------------------
(* PullRequestList with its contributor select: property changes, loads    *)
(* whose file requests are answered by the server, and selections.         *)

\* Lines 322-343: render() shows the select when there is no error, org and
\* repo are set and the list is not empty, with the option '' and one
\* option per contributor; its change handler assigns the chosen value.
SelectContributor ==
    /\ error = ""
    /\ thisOrg /= "" /\ thisRepo /= ""
    /\ pullRequests /= <<>>
    /\ \E value \in {""} \cup Range(GetContributors(pullRequests)) :
         /\ value /= selectedContributor
         /\ selectedContributor' = value
    /\ UNCHANGED <<pullRequests, thisOrg, thisRepo, githubToken, error,
                   repositories, loads, started, shown, organizations,
                   component, aggVars, fetchVars>>

InitSelect ==
    /\ pullRequests = <<>>
    /\ IdleAgg /\ IdleFetch /\ IdleComp

NextSelect ==
    \/ SetProperties
    \/ ListPageArrives
    \/ ListFailureArrives
    \/ FilesArrive
    \/ SelectContributor

SpecSelect == InitSelect /\ [][NextSelect]_vars

----------------------------------------------------------------------------
(* The file-type stats of loadPullRequests on bounded file lists: of two   *)
(* lists a and b (b of fewer files than the bound), of their               *)
(* concatenations, and of getCombinedFileTypeStatsByUser on two pull       *)
(* requests of one author that carry the stats of a and of b.              *)

FileNames ==
    { <<"a", ".", "j", "s">>, <<"R", "E", "A", "D", "M", "E">>,
      <<"b", ".", "t", ".", "j", "s">>, <<"m", ".">> }

\* additions and deletions of a file
FileChanges == { <<3, 1>>, <<2, 0>> }

Files ==
    { File(name, changes[1], changes[2]) :
        name \in FileNames, changes \in FileChanges }

FileLists(n) == UNION { [1..k -> Files] : k \in 0..n }

CallFileTypeStatsOfA ==
    /\ ft.pc = "idle"
    /\ ft' = [ft EXCEPT !.pc = "b", !.ofA = FileTypeStats(ft.a)]
    /\ UNCHANGED <<pullRequests, wk, grouped, agg, isoCalls, fetchVars,
                   compVars>>

CallFileTypeStatsOfB ==
    /\ ft.pc = "b"
    /\ ft' = [ft EXCEPT !.pc = "ab", !.ofB = FileTypeStats(ft.b)]
    /\ UNCHANGED <<pullRequests, wk, grouped, agg, isoCalls, fetchVars,
                   compVars>>

CallFileTypeStatsOfAB ==
    /\ ft.pc = "ab"
    /\ ft' = [ft EXCEPT !.pc = "ba", !.ofAB = FileTypeStats(ft.a \o ft.b)]
    /\ UNCHANGED <<pullRequests, wk, grouped, agg, isoCalls, fetchVars,
                   compVars>>

CallFileTypeStatsOfBA ==
    /\ ft.pc = "ba"
    /\ ft' = [ft EXCEPT !.pc = "combined",
                        !.ofBA = FileTypeStats(ft.b \o ft.a)]
    /\ UNCHANGED <<pullRequests, wk, grouped, agg, isoCalls, fetchVars,
                   compVars>>

CallCombineAB ==
    /\ ft.pc = "combined"
    /\ ft' = [ft EXCEPT
                !.pc = "done",
                !.combined = GetCombinedFileTypeStatsByUser(
                    << [files |-> ft.a, fileTypeStats |-> ft.ofA]
                         @@ PR(1, "closed", "alice", FixedDate),
                       [files |-> ft.b, fileTypeStats |-> ft.ofB]
                         @@ PR(2, "closed", "alice", FixedDate) >>)]
    /\ UNCHANGED <<pullRequests, wk, grouped, agg, isoCalls, fetchVars,
                   compVars>>

InitStats ==
    /\ pullRequests = <<>>
    /\ wk = WkStart /\ grouped = NotGrouped
    /\ agg = NoRender /\ isoCalls = NoISOCalls
    /\ IdleFetch /\ IdleComp
    /\ \E a \in FileLists(MaxFiles), b \in FileLists(MaxFiles - 1) :
         ft = [NoFt EXCEPT !.a = a, !.b = b]

NextStats ==
    \/ CallFileTypeStatsOfA
    \/ CallFileTypeStatsOfB
    \/ CallFileTypeStatsOfAB
    \/ CallFileTypeStatsOfBA
    \/ CallCombineAB

SpecStats == InitStats /\ [][NextStats]_vars

----------------------------------------------------------------------------
(* getISOWeek called on the seven days Monday .. Sunday of one week, at    *)
(* one time of day.                                                        *)

\* 2018-12-31, a Monday; the weeks from it hold eight turns of the year,
\* 1 January falling on every day of the week.
FirstMonday == DaysFromCivil(2018, 12, 31)

CallGetISOWeek ==
    /\ isoCalls.monday /= NoDate
    /\ Len(isoCalls.calls) < 7
    /\ LET date == AddDays(isoCalls.monday, Len(isoCalls.calls))
       IN  isoCalls' = [isoCalls EXCEPT
                          !.calls = Append(@, [date |-> date,
                                               week |-> GetISOWeek(date)])]
    /\ UNCHANGED <<pullRequests, wk, grouped, agg, ft, fetchVars, compVars>>

InitISO ==
    /\ pullRequests = <<>>
    /\ wk = WkStart /\ grouped = NotGrouped
    /\ agg = NoRender /\ ft = NoFt
    /\ IdleFetch /\ IdleComp
    /\ \E w \in 0..(NumISOWeeks - 1), t \in {0, DayTicks - 1} :
         isoCalls = [monday |-> (FirstMonday + 7 * w) * DayTicks + t,
                     calls |-> <<>>]

NextISO == CallGetISOWeek

SpecISO == InitISO /\ [][NextISO]_vars

----------------------------------------------------------------------------
(* ISO-8601 weeks, by their definition: a week runs Monday .. Sunday and   *)
(* belongs to the year that holds its Thursday.                            *)

ISOMonday(day) == day - ((day + 3) % 7)

ISOWeekYear(day) == CivilFromDays(ISOMonday(day) + 3).y

ISOWeekNumber(day) ==
    (ISOMonday(day) + 3 - DaysFromCivil(ISOWeekYear(day), 1, 1)) \div 7 + 1

ISOWeekLabel(day) ==
    ToString(ISOWeekYear(day)) \o "-W"
        \o (IF ISOWeekNumber(day) < 10 THEN "0" ELSE "")
        \o ToString(ISOWeekNumber(day))

CreatedDays(prs) == { DayOf(ParseDate(prs[i].created_at)) : i \in 1..Len(prs) }

MinOf(S) == CHOOSE x \in S : \A y \in S : x <= y

MaxOf(S) == CHOOSE x \in S : \A y \in S : x >= y

\* The Mondays of the ISO weeks from the earliest to the latest PR of prs.
WeekMondays(prs) ==
    LET first == ISOMonday(MinOf(CreatedDays(prs)))
        last  == ISOMonday(MaxOf(CreatedDays(prs)))
    IN  [i \in 1..((last - first) \div 7 + 1) |-> first + 7 * (i - 1)]

ExpectedWeeks(prs) ==
    [i \in 1..Len(WeekMondays(prs)) |-> ISOWeekLabel(WeekMondays(prs)[i])]

Authors(prs) == { UserOf(prs[i]) : i \in 1..Len(prs) }

RECURSIVE SumCounts(_, _)
SumCounts(series, i) ==
    IF i > Len(series) THEN 0 ELSE series[i].count + SumCounts(series, i + 1)

----------------------------------------------------------------------------
(* Claims *)

\* C1: for a non-empty PR list the week sequence built by
\* getPRsByUserPerWeek never leaves the range of ISO weeks from the earliest
\* to the latest PR (it is at every moment a prefix of that range, in
\* order, each week once), and the value returned gives every author exactly
\* the whole range.
C1_WeekSequence ==
    (wk.pc \in {"loop", "done"} /\ pullRequests /= <<>>) =>
        LET expected == ExpectedWeeks(pullRequests)
        IN  /\ Len(wk.allWeeks) <= Len(expected)
            /\ \A i \in 1..Len(wk.allWeeks) : wk.allWeeks[i] = expected[i]
            /\ wk.pc = "done" =>
                 /\ DOMAIN wk.result = Authors(pullRequests)
                 /\ \A u \in DOMAIN wk.result :
                      [i \in 1..Len(wk.result[u]) |-> wk.result[u][i].week]
                        = expected

\* C2: in the value returned by getPRsByUserPerWeek, the count of the i-th
\* entry of an author's series is the number of that author's PRs created in
\* the i-th ISO week (Monday .. Sunday) of the range, so the counts of one
\* author sum to that author's number of PRs.
C2_WeekCounts ==
    (wk.pc = "done" /\ pullRequests /= <<>>) =>
        \A u \in Authors(pullRequests) :
            /\ u \in DOMAIN wk.result
            /\ Len(wk.result[u]) = Len(WeekMondays(pullRequests))
            /\ \A i \in 1..Len(wk.result[u]) :
                 wk.result[u][i].count =
                   Cardinality({ k \in 1..Len(pullRequests) :
                       /\ UserOf(pullRequests[k]) = u
                       /\ ISOMonday(DayOf(ParseDate(pullRequests[k].created_at)))
                            = WeekMondays(pullRequests)[i] })
            /\ SumCounts(wk.result[u], 1) =
                 Cardinality({ k \in 1..Len(pullRequests) :
                                 UserOf(pullRequests[k]) = u })

\* C10: getGroupedPRs has the two buckets open and closed and no other; the
\* group of a bucket and an author is the subsequence, in input order, of
\* the PRs of that author whose state is 'open' (bucket open) or is anything
\* else (bucket closed); so every PR is in exactly one group.
InGroup(pr, bucket, user) ==
    /\ UserOf(pr) = user
    /\ (pr.state = "open") <=> (bucket = "open")

PagesOf(n) == IF n = 0 THEN 1 ELSE (n + PerPage - 1) \div PerPage

\* request i of the call goes to the URL that the response to request i - 1
\* gave as its rel="next" link
FollowsNextLink(i) ==
    LET link == SrvLink(SrvItems(srvTotal), call.requests[i - 1].url, PerPage)
    IN  \E j \in 1..Len(link) :
          link[j].rel = "next" /\ link[j].url = call.requests[i].url

\* C3: fetchRepositoryPullRequests against a server of k pages chained by
\* rel="next" links issues its requests one at a time, the first to the
\* pulls URL with per_page=100 and the caller's options, each later one to
\* the URL the previous response gave, never more than k; when it returns
\* it has issued exactly k requests and returns the server's items in
\* order, each once.
C3_FollowsLinks ==
    call.fn = "fetchRepositoryPullRequests" =>
        /\ Len(call.requests) <= PagesOf(srvTotal)
        /\ Len(call.requests) =
             call.received + (IF call.pc = "await" THEN 1 ELSE 0)
        /\ call.requests[1] =
             [url |-> [endpoint |-> "pulls", org |-> "acme", repo |-> "web",
                       per_page |-> 100, page |-> NoParam, state |-> "all"],
              token |-> "t1"]
        /\ \A i \in 2..Len(call.requests) : FollowsNextLink(i)
        /\ call.pc = "returned" =>
             /\ Len(call.requests) = PagesOf(srvTotal)
             /\ call.result = [i \in 1..srvTotal |-> i]

\* Pages of 100, 100 and 37 items: three requests, 237 items.
C3_Witness ==
    /\ call.fn = "fetchRepositoryPullRequests"
    /\ call.pc = "returned"
    /\ srvTotal = 237
    /\ Len(call.requests) = 3
    /\ Len(call.result) = 237

\* C4: fetchOrganizationRepositories requests page = 1, 2, 3, ... with
\* per_page=100, never more than floor(N / 100) + 1 pages of a server that
\* holds N repositories; when it returns it has issued exactly
\* floor(N / 100) + 1 requests, the last page received is the first with
\* fewer than 100 items, and it returns the N repositories in server order.
C4_PageCounter ==
    call.fn = "fetchOrganizationRepositories" =>
        /\ Len(call.requests) <= srvTotal \div 100 + 1
        /\ \A i \in 1..Len(call.requests) :
             call.requests[i] =
               [url |-> [endpoint |-> "repos", org |-> "acme", repo |-> "",
                         per_page |-> 100, page |-> i, state |-> ""],
                token |-> "t1"]
        /\ call.pc = "returned" =>
             /\ Len(call.requests) = srvTotal \div 100 + 1
             /\ Len(call.response.body) < 100
             /\ call.result = [i \in 1..srvTotal |-> i]

\* 200 repositories: two full pages and a third, empty one.
C4_Witness ==
    /\ call.fn = "fetchOrganizationRepositories"
    /\ call.pc = "returned"
    /\ srvTotal = 200
    /\ Len(call.requests) = 3
    /\ call.response.body = <<>>
    /\ Len(call.result) = 200

\* C5: fetchUserOrganizations returns only when the last response carries no
\* rel="next" link, and returns all organizations of the user, in order.
C5_AllOrganizations ==
    (call.fn = "fetchUserOrganizations" /\ call.pc = "returned") =>
        /\ \A j \in 1..Len(call.response.link) :
             call.response.link[j].rel /= "next"
        /\ call.result = [i \in 1..srvTotal |-> i]

\* The message of a failure, written out.
ExpectedApiError(status) ==
    CASE status = 403 -> "GitHub API error: 403 Forbidden"
      [] status = 404 -> "GitHub API error: 404 Not Found"
      [] status = 500 -> "GitHub API error: 500 Internal Server Error"

PagingFunctions ==
    {"fetchRepositoryPullRequests", "fetchOrganizationRepositories",
     "fetchAllUserOrganizations"}

\* What C7 says of a rejected call apart from its message: it was the last
\* response that failed, on whatever page; no request is outstanding or
\* will be issued; the failing request was issued once; nothing is returned.
RejectedCallStops ==
    /\ ~call.response.ok
    /\ call.response.status \in ErrorStatuses
    /\ Len(call.requests) = call.received
    /\ \A i, j \in 1..Len(call.requests) :
         call.requests[i] = call.requests[j] => i = j
    /\ call.requests[Len(call.requests)].url = call.url
    /\ call.result = <<>>
    /\ ~ENABLED (PageArrives \/ FailureArrives)

\* C7, as claimed: a non-2xx response on any page rejects the call with
\* 'GitHub API error: <status> <statusText>' in all three paging functions.
C7_Original ==
    (call.fn \in PagingFunctions /\ call.received > 0) =>
        /\ (call.pc = "rejected") <=> ~call.response.ok
        /\ call.pc = "rejected" =>
             /\ call.error = ExpectedApiError(call.response.status)
             /\ RejectedCallStops

\* C7, amended: as claimed, except that fetchOrganizationRepositories
\* rejects a 403 with the access-denied message, which carries neither the
\* status nor the status text.
C7_RejectsOnFailure ==
    (call.fn \in PagingFunctions /\ call.received > 0) =>
        /\ (call.pc = "rejected") <=> ~call.response.ok
        /\ call.pc = "rejected" =>
             /\ call.error =
                  IF /\ call.fn = "fetchOrganizationRepositories"
                     /\ call.response.status = 403
                  THEN "Access denied. You do not have permission to view repositories for this organization."
                  ELSE ExpectedApiError(call.response.status)
             /\ RejectedCallStops

\* A 500 on the third page of the pull requests, after 200 items.
C7_Witness ==
    /\ call.fn = "fetchRepositoryPullRequests"
    /\ call.pc = "rejected"
    /\ call.received = 3
    /\ Len(call.acc) = 200
    /\ call.error = "GitHub API error: 500 Internal Server Error"

\* The file-type stats an entry of pullRequests contributes.
StatsOf(pr) ==
    IF "fileTypeStats" \in DOMAIN pr THEN pr.fileTypeStats ELSE <<>>

\* C6: when the list fetch of a load has succeeded, the load succeeds
\* whichever of its file fetches failed: error is '', pullRequests has one
\* entry per fetched pull request, in the order of the fetched list, and
\* the entry of a pull request whose file fetch failed has an empty file
\* list and no file-type stats.
C6_FileFailuresTolerated ==
    shown.outcome = "success" =>
        /\ shown.fetched = ServerPRs(shown.org, shown.repo)
        /\ error = ""
        /\ Len(pullRequests) = Len(shown.fetched)
        /\ \A i \in 1..Len(shown.fetched) :
             \A f \in DOMAIN shown.fetched[i] :
                 pullRequests[i][f] = shown.fetched[i][f]
        /\ \A i \in shown.failed :
             /\ pullRequests[i].files = <<>>
             /\ StatsOf(pullRequests[i]) = <<>>

\* A load of two pull requests has succeeded whose file fetches completed
\* in reverse order, the second of them failing and the first not.
C6_Witness ==
    /\ shown.outcome = "success"
    /\ shown.order = <<2, 1>>
    /\ shown.failed = {2}
    /\ Len(pullRequests) = 2
    /\ pullRequests[1].files /= <<>>

\* C9: no load call is cancelled or tagged: in every step a load call
\* under way either stays under way or completes, and a completing call
\* assigns its result to pullRequests and error whatever the properties
\* are by then; so the result of an older call can be the last assigned.
C9_EveryLoadApplies ==
    [][\A i \in 1..Len(loads) :
          LET l == loads[i]
          IN  \/ \E j \in 1..Len(loads') : loads'[j].gen = l.gen
              \/ /\ shown'.gen = l.gen
                 /\ shown'.outcome = "success"
                 /\ error' = ""
                 /\ [k \in 1..Len(pullRequests') |-> pullRequests'[k].number]
                      = [k \in 1..Len(ServerPRs(l.call.org, l.call.repo)) |->
                           ServerPRs(l.call.org, l.call.repo)[k].number]
              \/ /\ shown'.gen = l.gen
                 /\ shown'.outcome = "failure"
                 /\ pullRequests' = <<>>
                 /\ error' /= ""]_vars

\* No load call is under way, the selection is that of the second call,
\* and pullRequests holds the list the first call fetched for another one.
C9_Witness ==
    /\ loads = <<>>
    /\ started = 2
    /\ shown.gen = 1
    /\ shown.outcome = "success"
    /\ thisOrg /= "" /\ thisRepo /= "" /\ githubToken /= ""
    /\ shown.repo = "web" /\ thisRepo = "api"
    /\ Len(pullRequests) = 2
    /\ pullRequests[2].user = "bob"

\* C8: a load of OrganizationRepoList that ends on a failing response
\* leaves repositories empty and error equal to the access-denied message
\* when the status of that response is 403, and to the generic message of
\* its status and status text otherwise, on whatever page the response
\* came; the access-denied message differs from every generic message.
C8_AccessDenied ==
    /\ \A status \in ErrorStatuses :
         ExpectedApiError(status)
           /= "Access denied. You do not have permission to view repositories for this organization."
    /\ shown.outcome = "failure" =>
         /\ repositories = <<>>
         /\ shown.status \in ErrorStatuses
         /\ error = IF shown.status = 403
                    THEN "Access denied. You do not have permission to view repositories for this organization."
                    ELSE ExpectedApiError(shown.status)

\* The second load of the component has ended on a 403 for its second page.
C8_Witness ==
    /\ shown.outcome = "failure"
    /\ shown.gen = 2
    /\ shown.status = 403
    /\ shown.responses = 2
    /\ repositories = <<>>
    /\ error = AccessDeniedMessage

\* A load has ended on a 500.
C8_WitnessGeneric ==
    /\ shown.outcome = "failure"
    /\ shown.status = 500
    /\ error = "GitHub API error: 500 Internal Server Error"

\* The aggregation of the given position has returned.
Returned(position) ==
    CASE position = "grouped" -> agg.pc /= "idle"
      [] position = "closedCounts" -> agg.pc \notin {"idle", "closedCounts"}
      [] position = "prsByUserPerWeek" ->
           agg.pc \in {"contributors", "combinedFileTypeStatsByUser", "done"}
      [] position = "contributors" ->
           agg.pc \in {"combinedFileTypeStatsByUser", "done"}
      [] position = "combinedFileTypeStatsByUser" -> agg.pc = "done"

\* The positions of the pull requests of an author that are not open.
NotOpenOf(prs, user) ==
    { i \in 1..Len(prs) : UserOf(prs[i]) = user /\ prs[i].state /= "open" }

RECURSIVE SumSeq(_)
SumSeq(seq) == IF seq = <<>> THEN 0 ELSE Head(seq) + SumSeq(Tail(seq))

RECURSIVE SumBuckets(_, _, _)
SumBuckets(stats, keys, field) ==
    IF keys = {} THEN 0
    ELSE LET k == CHOOSE k \in keys : TRUE
         IN  stats[k][field] + SumBuckets(stats, keys \ {k}, field)

\* The bucket of a file name as C12 has it: "other" for a name without a
\* dot, else what follows the last dot ("other" too when nothing follows).
BucketOf(filename) ==
    IF \A i \in 1..Len(filename) : filename[i] /= "." THEN "other"
    ELSE LET last == CHOOSE i \in 1..Len(filename) :
                        /\ filename[i] = "."
                        /\ \A j \in (i + 1)..Len(filename) : filename[j] /= "."
         IN  IF last = Len(filename) THEN "other"
             ELSE Join(SubSeq(filename, last + 1, Len(filename)))

ExpectedFileTypeStats(files) ==
    [ext \in { BucketOf(files[i].filename) : i \in 1..Len(files) } |->
        LET in(i) == BucketOf(files[i].filename) = ext
        IN  [count |-> Cardinality({ i \in 1..Len(files) : in(i) }),
             additions |-> SumSeq([i \in 1..Len(files) |->
                              IF in(i) THEN files[i].additions ELSE 0]),
             deletions |-> SumSeq([i \in 1..Len(files) |->
                              IF in(i) THEN files[i].deletions ELSE 0])]]

\* C12: the file-type stats of a file list have one bucket per extension
\* of its files, the extension being what follows the last dot of the file
\* name, and 'other' for a name without a dot; a bucket holds the number of
\* its files and the sums of their additions and deletions.
C12_DotlessIsOther ==
    ft.pc /= "idle" => ft.ofA = ExpectedFileTypeStats(ft.a)

\* C13: the stats of two file lists, summed per extension as
\* getCombinedFileTypeStatsByUser sums those of two pull requests of one
\* author, are the stats of the concatenation of the lists, in either
\* order: every extension of either list has the sums of the additions,
\* deletions and counts of both.
C13_Additive ==
    ft.pc = "done" =>
        /\ ft.combined = [alice |-> ft.ofAB]
        /\ ft.ofBA = ft.ofAB
        /\ DOMAIN ft.ofAB = DOMAIN ft.ofA \cup DOMAIN ft.ofB
        /\ \A ext \in DOMAIN ft.ofAB :
             \A field \in {"additions", "deletions", "count"} :
                 ft.ofAB[ext][field]
                   = Lookup(ft.ofA, ext, NoTotals)[field]
                       + Lookup(ft.ofB, ext, NoTotals)[field]

\* Two lists, of two files and of one, with different extensions and one in
\* common.
C13_Witness ==
    /\ ft.pc = "done"
    /\ Len(ft.a) = 2 /\ Len(ft.b) = 1
    /\ DOMAIN ft.ofA /= DOMAIN ft.ofB
    /\ "js" \in DOMAIN ft.ofA \cap DOMAIN ft.ofB
    /\ ft.combined["alice"]["js"].count >= 2

\* What C17 says of the stats of a file list.
StatsOfList(files, stats) ==
    /\ \A ext \in DOMAIN stats :
         /\ stats[ext].count >= 1
         /\ stats[ext].additions >= 0
         /\ stats[ext].deletions >= 0
         /\ \/ ext = "other"
            \/ \E i \in 1..Len(files) : \E k \in 1..Len(files[i].filename) :
                 ext = Join(SubSeq(files[i].filename, k,
                                   Len(files[i].filename)))
    /\ SumBuckets(stats, DOMAIN stats, "count") = Len(files)
    /\ SumBuckets(stats, DOMAIN stats, "additions")
         = SumSeq([i \in 1..Len(files) |-> files[i].additions])
    /\ SumBuckets(stats, DOMAIN stats, "deletions")
         = SumSeq([i \in 1..Len(files) |-> files[i].deletions])

FirstThursday(y) ==
    CHOOSE day \in DaysFromCivil(y, 1, 1)..DaysFromCivil(y, 1, 7) :
        (day + 4) % 7 = 4

Week1Monday(y) == FirstThursday(y) - 3

WeekByDefinition(day) ==
    LET monday == ISOMonday(day)
        cy     == CivilFromDays(day).y
        y      == CHOOSE y \in (cy - 1)..(cy + 1) :
                     Week1Monday(y) <= monday /\ monday < Week1Monday(y + 1)
    IN  (monday - Week1Monday(y)) \div 7 + 1

\* C14: getISOWeek returns the ISO-8601 week number of the day of its
\* argument, a number in 1..53, and so the same number for the seven days
\* Monday .. Sunday of a week, also when 1 January falls within the week.
C14_ISOWeek ==
    /\ \A k \in 1..Len(isoCalls.calls) :
         /\ isoCalls.calls[k].week
              = WeekByDefinition(DayOf(isoCalls.calls[k].date))
         /\ isoCalls.calls[k].week \in 1..53
         /\ isoCalls.calls[k].week = isoCalls.calls[1].week
    /\ isoCalls.monday /= NoDate =>
         /\ GetUTCDay(isoCalls.monday) = 1
         /\ ISOMonday(DayOf(isoCalls.monday)) = DayOf(isoCalls.monday)

\* The seven days of the week 2020-12-28 .. 2021-01-03 have got week 53.
C14_Witness ==
    /\ Len(isoCalls.calls) = 7
    /\ DayOf(isoCalls.monday) = DaysFromCivil(2020, 12, 28)
    /\ GetUTCFullYear(isoCalls.calls[4].date) = 2020
    /\ GetUTCFullYear(isoCalls.calls[5].date) = 2021
    /\ isoCalls.calls[7].week = 53

\* The timestamps of the PRs of an author, and the Monday, at midnight, of
\* the ISO week of a timestamp.
CreatedOf(prs, user) ==
    { ParseDate(prs[k].created_at) :
        k \in { i \in 1..Len(prs) : UserOf(prs[i]) = user } }

MondayOf(ts) == ISOMonday(DayOf(ts)) * DayTicks

\* C15: the label 'YYYY-Www' identifies an ISO week: once the PRs are
\* counted, the labels an author's PRs are counted under are the labels the
\* week enumeration gives to the Mondays of the weeks of those PRs, and
\* there are as many of them as ISO weeks with a PR of the author (two PRs
\* have one label if and only if they are of one ISO week).
C15_LabelIdentifiesWeek ==
    (wk.pc /= "collect" /\ pullRequests /= <<>>) =>
        \A u \in Authors(pullRequests) :
            /\ u \in DOMAIN wk.weekMap
            /\ DOMAIN wk.weekMap[u]
                 = { WeekKey(MondayOf(ts)) : ts \in CreatedOf(pullRequests, u) }
            /\ \A s, t \in CreatedOf(pullRequests, u) :
                 WeekKey(s) = WeekKey(t) <=> MondayOf(s) = MondayOf(t)

\* The sum, over the pull requests of prs that satisfy the set of positions
\* pos, of a field of their own file-type stats for an extension.
OwnTotal(prs, pos, ext, field) ==
    SumSeq([i \in 1..Len(prs) |->
              IF i \in pos
              THEN Lookup(StatsOf(prs[i]), ext, NoTotals)[field] ELSE 0])

PositionsOf(prs, user) == { i \in 1..Len(prs) : UserOf(prs[i]) = user }

ExpectedAuthors(prs) ==
    { IF prs[i].user = NullUser THEN "unknown" ELSE prs[i].user :
        i \in 1..Len(prs) }

C19_Contributors ==
    Returned("contributors") =>
        agg.contributors
          = SelectSeq(<<"alice", "bob", "unknown">>,
                      LAMBDA u : u \in ExpectedAuthors(pullRequests))

\* The list has the authors in descending order, one of them twice.
C19_Witness ==
    /\ Returned("contributors")
    /\ Len(pullRequests) = 3
    /\ pullRequests[1].user = "bob"
    /\ pullRequests[2].user = "alice"
    /\ pullRequests[3].user = "bob"
    /\ agg.contributors = <<"alice", "bob">>

\* C20: for the empty PR list no aggregation raises an error and each
\* returns its empty result: {open: {}, closed: {}}, [], {}, [] and {}.
C20_EmptyList ==
    pullRequests = <<>> =>
        /\ wk.pc /= "threw"
        /\ Returned("grouped") =>
             agg.grouped = [open |-> <<>>, closed |-> <<>>]
        /\ Returned("closedCounts") => agg.closedCounts = <<>>
        /\ (wk.pc = "done" \/ Returned("prsByUserPerWeek")) =>
             wk.result = <<>> /\ agg.prsByUserPerWeek = <<>>
        /\ Returned("contributors") => agg.contributors = <<>>
        /\ Returned("combinedFileTypeStatsByUser") =>
             agg.combinedFileTypeStatsByUser = <<>>

\* All aggregations have returned for the empty list.
C20_Witness ==
    /\ pullRequests = <<>>
    /\ agg.pc = "done"
    /\ wk.pc = "done"


\* ------------------------------------------------------------------------
\* The two pagination loops against the same server content.

LinkLoops == {"fetchRepositoryPullRequests", "fetchAllUserOrganizations"}

PageCounterLoops == {"fetchOrganizationRepositories"}

\* C21: against a server that holds N items, serves them in pages of 100
\* and gives a rel="next" link exactly when a further page exists, the
\* Link-following loops and the page-counter loop return one and the same
\* sequence: the N items in server order, each once, none missing, for
\* every N including 0 and the exact multiples of 100.
C21_SameItems ==
    (call.fn \in LinkLoops \cup PageCounterLoops /\ call.pc = "returned") =>
        /\ call.result = SrvItems(srvTotal)
        /\ Len(call.result) = srvTotal
        /\ \A i, j \in 1..Len(call.result) :
             call.result[i] = call.result[j] => i = j

\* 200 items, an exact multiple of the page size, returned by the
\* page-counter loop after the empty third page.
C21_Witness ==
    /\ call.fn \in PageCounterLoops
    /\ call.pc = "returned"
    /\ srvTotal = 200
    /\ call.received = 3
    /\ call.result = SrvItems(200)

\* The same 200 items returned by a Link-following loop after two pages.
C21_WitnessLink ==
    /\ call.fn \in LinkLoops
    /\ call.pc = "returned"
    /\ srvTotal = 200
    /\ call.received = 2
    /\ call.result = SrvItems(200)


\* ------------------------------------------------------------------------
\* loadPullRequests: fan-out of the file requests and the one assignment.

\* The file requests of load l that have not settled.
InFlight(l) == (1..Len(l.fileRequests)) \ l.settled

\* C22: once the list is there a load has issued one file request per
\* fetched pull request, all of them before any has settled; while any of
\* them is outstanding the load has assigned nothing; and what a successful
\* load has assigned is the whole fetched list, position by position, every
\* pull request with its file request settled.
C22_AssignsOnceAfterAll ==
    /\ \A i \in 1..Len(loads) :
         /\ loads[i].gen /= shown.gen
         /\ loads[i].stage = "list" => loads[i].fileRequests = <<>>
         /\ loads[i].stage = "files" =>
              /\ Len(loads[i].fileRequests) = Len(loads[i].call.result)
              /\ Len(loads[i].values) = Len(loads[i].call.result)
              /\ InFlight(loads[i]) /= {}
    /\ shown.outcome = "success" =>
         /\ Len(pullRequests) = Len(shown.fetched)
         /\ \A k \in 1..Len(pullRequests) :
              /\ pullRequests[k].number = shown.fetched[k].number
              /\ "files" \in DOMAIN pullRequests[k]
              /\ k \in Range(shown.order)

\* Two pull requests listed, both file requests in flight, none settled.
C22_WitnessInFlight ==
    \E i \in 1..Len(loads) :
        /\ loads[i].stage = "files"
        /\ Len(loads[i].call.result) = 2
        /\ Cardinality(InFlight(loads[i])) = 2

\* A load of two pull requests whose file requests settled in the reverse
\* order has assigned both.
C22_Witness ==
    /\ shown.outcome = "success"
    /\ Len(shown.fetched) = 2
    /\ shown.order = <<2, 1>>
    /\ Len(pullRequests) = 2


\* C25: a load has issued no file request as long as its list request is
\* under way, and when it has issued them the list call has returned on a
\* response without a rel="next" link, with every pull request of the
\* repository; a load whose list call was rejected, on whatever page, has
\* issued no file request and has left pullRequests empty and error equal
\* to the message of the failing response.
C25_FilesAfterWholeList ==
    /\ \A i \in 1..Len(loads) :
         LET l == loads[i]
         IN  /\ l.stage = "list" => l.fileRequests = <<>>
             /\ l.fileRequests /= <<>> =>
                  /\ l.call.pc = "returned"
                  /\ l.call.response.ok
                  /\ NextLink(l.call.response.link) = NoUrl
                  /\ Len(l.call.result)
                       = Len(ServerPRs(l.call.org, l.call.repo))
    /\ shown.outcome = "failure" =>
         /\ shown.fileRequests = <<>>
         /\ pullRequests = <<>>
         /\ shown.status \in ErrorStatuses
         /\ error = ExpectedApiError(shown.status)

\* The list request failed on its second page, after a first page with a
\* pull request on it had been received.
C25_Witness ==
    /\ shown.outcome = "failure"
    /\ shown.responses = 2
    /\ shown.repo = "web"
    /\ error = "GitHub API error: 500 Internal Server Error"
    /\ pullRequests = <<>>


\* ------------------------------------------------------------------------
\* getClosedPRCountsByUser: the order of authors with equal counts.

\* The position of the first pull request of an author that is not open.
FirstNotOpen(prs, user) ==
    CHOOSE i \in NotOpenOf(prs, user) : \A j \in NotOpenOf(prs, user) : i <= j

\* C24: in the result of getClosedPRCountsByUser, of two authors with equal
\* counts the one whose first pull request that is not open comes earlier
\* in the list comes first.
C24_TiesInEncounterOrder ==
    Returned("closedCounts") =>
        LET counts == agg.closedCounts
        IN  \A k, m \in 1..Len(counts) :
              (k < m /\ counts[k].count = counts[m].count) =>
                  FirstNotOpen(pullRequests, counts[k].user)
                      < FirstNotOpen(pullRequests, counts[m].user)

\* The same for authors whose names are not array indices.
C24_TiesOfNames ==
    Returned("closedCounts") =>
        LET counts == agg.closedCounts
        IN  \A k, m \in 1..Len(counts) :
              ( /\ k < m
                /\ counts[k].count = counts[m].count
                /\ ArrayIndex(counts[k].user) = NoIndex
                /\ ArrayIndex(counts[m].user) = NoIndex ) =>
                  FirstNotOpen(pullRequests, counts[k].user)
                      < FirstNotOpen(pullRequests, counts[m].user)

\* alice and bob tied with one closed pull request each, alice's first.
C24_WitnessNames ==
    /\ Returned("closedCounts")
    /\ agg.closedCounts = <<[user |-> "alice", count |-> 1],
                            [user |-> "bob", count |-> 1]>>


\* ------------------------------------------------------------------------
\* getPRsByUserPerWeek: the end of the week enumeration.

\* C26: for a non-empty PR list the do/while loop of getPRsByUserPerWeek
\* ends after as many iterations as there are ISO weeks from the week of
\* the earliest PR to the week of the latest one: while it runs it has done
\* fewer iterations than that, and when it has ended it has done exactly
\* that many.
C26_LoopEnds ==
    pullRequests /= <<>> =>
        LET weeks == Len(WeekMondays(pullRequests))
        IN  /\ wk.pc = "loop" => Len(wk.allWeeks) < weeks
            /\ wk.pc = "done" => Len(wk.allWeeks) = weeks

\* The same for lists whose earliest and latest PR are labelled with the
\* year their ISO week belongs to.
C26_LoopEndsWithinYear ==
    ( /\ pullRequests /= <<>>
      /\ \A i \in 1..Len(pullRequests) :
           GetUTCFullYear(ParseDate(pullRequests[i].created_at))
             = ISOWeekYear(DayOf(ParseDate(pullRequests[i].created_at))) ) =>
        LET weeks == Len(WeekMondays(pullRequests))
        IN  /\ wk.pc = "loop" => Len(wk.allWeeks) < weeks
            /\ wk.pc = "done" => Len(wk.allWeeks) = weeks

\* Two PRs in different weeks of one year: the loop has ended after two
\* iterations.
C26_WitnessWithinYear ==
    /\ Len(pullRequests) = 2
    /\ wk.pc = "done"
    /\ Len(wk.allWeeks) = 2
    /\ \A i \in 1..2 :
         GetUTCFullYear(ParseDate(pullRequests[i].created_at))
           = ISOWeekYear(DayOf(ParseDate(pullRequests[i].created_at)))


\* ------------------------------------------------------------------------
\* loadPullRequests: the repository the file requests go to.

\* C27: every file request of a load goes to the org and repo, with the
\* token, of the list request of that load, whatever the properties have
\* become by then; and the file-type stats of an entry of pullRequests are
\* those of the files of that pull request in the repository the list was
\* fetched from.
C27_SameRepository ==
    /\ \A i \in 1..Len(loads) :
         \A k \in 1..Len(loads[i].fileRequests) :
           LET request == loads[i].fileRequests[k]
           IN  /\ request.url.org = loads[i].call.org
               /\ request.url.repo = loads[i].call.repo
               /\ request.token = loads[i].call.token
    /\ shown.outcome = "success" =>
         \A k \in 1..Len(pullRequests) :
           StatsOf(pullRequests[k]) /= <<>> =>
             StatsOf(pullRequests[k])
               = FileTypeStats(ServerFiles(shown.org, shown.repo,
                                           pullRequests[k].number))

\* The same for loads during whose list request the properties stay as
\* they were.
C27_SameRepositoryIfUnchanged ==
    /\ \A i \in 1..Len(loads) :
         ( /\ loads[i].stage = "files"
           /\ started = loads[i].gen
           /\ <<thisOrg, thisRepo, githubToken>>
                 = <<loads[i].call.org, loads[i].call.repo,
                     loads[i].call.token>> ) =>
           \A k \in 1..Len(loads[i].fileRequests) :
             LET request == loads[i].fileRequests[k]
             IN  /\ request.url.org = loads[i].call.org
                 /\ request.url.repo = loads[i].call.repo
                 /\ request.token = loads[i].call.token

\* File requests of a load whose properties did not change.
C27_WitnessUnchanged ==
    \E i \in 1..Len(loads) :
        /\ loads[i].stage = "files"
        /\ started = loads[i].gen
        /\ loads[i].call.repo = "web"
        /\ thisRepo = "web"
        /\ Len(loads[i].fileRequests) = 2


\* ------------------------------------------------------------------------
\* OrganizationList: the empty token.

\* C30: in every step of OrganizationList that changes githubToken to the
\* empty string, organizations becomes empty and error becomes
\* 'GitHub token is missing.'; and in every state, once the update has run,
\* organizations is empty when githubToken is empty.
C30_EmptyTokenClears ==
    /\ [](githubToken = "" => organizations = <<>>)
    /\ [][(githubToken /= "" /\ githubToken' = "") =>
            /\ organizations' = <<>>
            /\ error' = "GitHub token is missing."]_vars

\* The token has been emptied with no organizations held: the list is
\* empty, as it was.
C30_WitnessEmptyList ==
    /\ githubToken = ""
    /\ started > 0
    /\ organizations = <<>>


\* ------------------------------------------------------------------------
\* The three list components: what a completed load leaves.

\* The list of the component.
HeldList ==
    CASE component = "PullRequestList"      -> pullRequests
      [] component = "OrganizationRepoList" -> repositories
      [] component = "OrganizationList"     -> organizations

\* What the server holds for the request of the load that assigned last.
ServerList ==
    CASE component = "PullRequestList" -> ServerPRs(shown.org, shown.repo)
      [] component = "OrganizationRepoList" -> ServerRepos(shown.org)
      [] component = "OrganizationList"     -> ServerOrgs(shown.token)

\* The message of the failure of a load.
ExpectedLoadError(status) ==
    IF component = "OrganizationRepoList" /\ status = 403
    THEN "Access denied. You do not have permission to view repositories for this organization."
    ELSE ExpectedApiError(status)

\* C23: after a load of PullRequestList, OrganizationRepoList or
\* OrganizationList has completed with success, the list of the component
\* holds the items that load fetched, each once and no other item, and
\* error is ''; after it has completed with a failure the list is empty and
\* error is the message of that failure.
C23_LoadReplaces ==
    /\ shown.outcome = "success" =>
         /\ error = ""
         /\ shown.fetched = ServerList
         /\ Len(HeldList) = Len(shown.fetched)
         /\ \A i \in 1..Len(shown.fetched) :
              \E k \in 1..Len(HeldList) :
                \A f \in DOMAIN shown.fetched[i] :
                    HeldList[k][f] = shown.fetched[i][f]
    /\ shown.outcome = "failure" =>
         /\ HeldList = <<>>
         /\ shown.status \in ErrorStatuses
         /\ error = ExpectedLoadError(shown.status)

\* OrganizationList: the second load, for another token, has completed
\* after the first and the list holds the one organization it fetched.
C23_Witness ==
    /\ component = "OrganizationList"
    /\ loads = <<>>
    /\ started = 2
    /\ shown.gen = 2
    /\ shown.outcome = "success"
    /\ shown.token = "t2"
    /\ organizations = ServerOrgs("t2")

\* PullRequestList: the second load has failed after the first and the
\* list is empty.
C23_WitnessFailure ==
    /\ component = "PullRequestList"
    /\ loads = <<>>
    /\ started = 2
    /\ shown.gen = 2
    /\ shown.outcome = "failure"
    /\ pullRequests = <<>>
    /\ error = "GitHub API error: 404 Not Found"

\* C28: in every state of PullRequestList, OrganizationRepoList and
\* OrganizationList, whatever the order of property changes and load
\* completions, the list is empty when error is not '', and error is ''
\* when the list is not empty.
C28_ErrorOrList ==
    /\ error /= "" =>
         pullRequests = <<>> /\ repositories = <<>> /\ organizations = <<>>
    /\ (pullRequests /= <<>> \/ repositories /= <<>> \/ organizations /= <<>>)
         => error = ""

\* OrganizationRepoList: the second load has succeeded after the first had
\* completed, and the list is held with error ''.
C28_Witness ==
    /\ component = "OrganizationRepoList"
    /\ started = 2
    /\ loads = <<>>
    /\ shown.gen = 2
    /\ shown.outcome = "success"
    /\ repositories /= <<>>
    /\ error = ""


\* ------------------------------------------------------------------------
\* PullRequestList: the selected contributor.

\* C29: in every state of PullRequestList selectedContributor is '' or one
\* of the contributors of the pull requests held, also after a load has
\* replaced or emptied the list.
C29_SelectedIsContributor ==
    \/ selectedContributor = ""
    \/ selectedContributor \in Range(GetContributors(pullRequests))

\* The same at the moment of the selection: the value a selection assigns
\* is '' or a contributor of the list held then.
C29_SelectedWhenChosen ==
    [][selectedContributor' /= selectedContributor =>
          \/ selectedContributor' = ""
          \/ selectedContributor' \in Range(GetContributors(pullRequests'))]_vars

\* bob has been selected in the list of acme/web.
C29_WitnessChosen ==
    /\ selectedContributor = "bob"
    /\ shown.repo = "web"
    /\ Len(pullRequests) = 2

=============================================================================
